---- MODULE Spec2Model ----
(***************************************************************************)
(* The live terminal dashboard of cloudctl (cmd/dashboard.go): the         *)
(* controller (type dashboard), the cluster pane and the volume pane, the  *)
(* event loop of runDashboard, and the remote API they poll.               *)
(*                                                                         *)
(* A goroutine that is inside Render is suspended only in an outbound API  *)
(* call; every action below runs one goroutine from the return of one API  *)
(* call (or from an event) to the next API call it issues.                 *)
(***************************************************************************)
EXTENDS Integers, Sequences, FiniteSets, TLC

(***************************************************************************)
(* Bounds of the model.                                                    *)
(***************************************************************************)
\* longest list of clusters / volumes / storage clusters the API returns
MaxRecords == 3
\* longest list of conditions of one cluster
MaxConditions == 2
\* largest wall-clock hour used in a condition's or last error's timestamp
MaxHour == 4
\* the status line's clock runs from 0 to MaxNow
MaxNow == 1
\* length of the lists of clusters whose problems share timestamps
TieRecords == 7
\* longest list of volumes the lookup of "volume delete" returns
MaxFound == 2

(***************************************************************************)
(* Values.                                                                 *)
(***************************************************************************)
\* a nil pointer to a string (a JSON field that is absent)
NIL == "<nil>"

\* error values; kind "nil" is Go's nil error
NoErr == [kind |-> "nil", code |-> 0]
ErrDeadline == [kind |-> "context deadline exceeded", code |-> 0]
\* *volume.ClusterInfoDefault carrying an HTTP status code
ClusterInfoDefault(code) == [kind |-> "ClusterInfoDefault", code |-> code]
\* net/http.StatusForbidden
StatusForbidden == 403

\* timestamps as the API sends them: an RFC3339 string is a wall-clock hour
\* with a zone offset; "bad" is a string time.Parse rejects; "nil" a nil pointer
TsNil == [kind |-> "nil", wall |-> 0, off |-> 0]
TsBad == [kind |-> "bad", wall |-> 0, off |-> 0]
Ts(wall, off) == [kind |-> "rfc3339", wall |-> wall, off |-> off]

\* time.Parse(time.RFC3339, s): the instant, or an error
ParseOK(ts) == ts.kind = "rfc3339"
ParseTime(ts) == ts.wall - ts.off

\* Time.After
\* a comparison that would put the oldest entry first
Before(t, u) == t < u

After(t, u) == t > u

(***************************************************************************)
(* The cluster pane's reduction of the fetched clusters                    *)
(* (dashboardClusterPane.Render, the loop over clusters).                  *)
(*                                                                         *)
(* A cluster is [isNil, Name, State, Conditions, LastErrors]; State = NIL  *)
(* stands for a nil Status, a nil Status.LastOperation or a nil            *)
(* Status.LastOperation.State, which line 473 treats alike.  A condition   *)
(* is [isNil, Status, Type, Message, LastUpdateTime], a last error is      *)
(* [isNil, Description, LastUpdateTime].                                   *)
(***************************************************************************)
LastOperationStateSucceeded == "Succeeded"
LastOperationStateProcessing == "Processing"
ConditionTrue == "True"
ConditionProgressing == "Progressing"
ShootControlPlaneHealthy == "ControlPlaneHealthy"
ShootEveryNodeReady == "EveryNodeReady"
ShootSystemComponentsHealthy == "SystemComponentsHealthy"
ShootAPIServerAvailable == "APIServerAvailable"

\* fmt.Sprintf("(%s) %s", *condition.Type, *condition.Message)
ConditionErrorMessage(type, message) == <<"(", type, ") ", message>>

\* the locals of Render before the loop
ClusterAcc0 ==
  [succeeded |-> 0, processing |-> 0, unhealthy |-> 0,
   apiOK |-> 0, controlOK |-> 0, nodesOK |-> 0, systemOK |-> 0,
   clusterErrors |-> <<>>, lastErrors |-> <<>>, panicked |-> FALSE]

\* one iteration of the loop over c.Status.Conditions
ConditionStep(acc, c, condition) ==
  IF condition.isNil \/ condition.Status = NIL \/ condition.Type = NIL
  THEN acc
  ELSE IF condition.Status # ConditionTrue /\ condition.Status # ConditionProgressing
  THEN IF c.Name = NIL \/ condition.Message = NIL \/ condition.LastUpdateTime.kind = "nil"
       THEN acc
       ELSE IF ~ParseOK(condition.LastUpdateTime)
       THEN acc
       ELSE [acc EXCEPT !.clusterErrors = Append(@,
               [ClusterName |-> c.Name,
                ErrorMessage |-> ConditionErrorMessage(condition.Type, condition.Message),
                Time |-> ParseTime(condition.LastUpdateTime)])]
  ELSE CASE condition.Type = ShootControlPlaneHealthy -> [acc EXCEPT !.controlOK = @ + 1]
         [] condition.Type = ShootEveryNodeReady -> [acc EXCEPT !.nodesOK = @ + 1]
         [] condition.Type = ShootSystemComponentsHealthy -> [acc EXCEPT !.systemOK = @ + 1]
         [] condition.Type = ShootAPIServerAvailable -> [acc EXCEPT !.apiOK = @ + 1]
         [] OTHER -> acc

RECURSIVE ConditionLoop(_, _, _)
ConditionLoop(acc, c, conditions) ==
  IF conditions = <<>> THEN acc
  ELSE ConditionLoop(ConditionStep(acc, c, Head(conditions)), c, Tail(conditions))

\* one iteration of the loop over c.Status.LastErrors; e.Description of a nil e
\* is a nil pointer dereference, reached only when c.Name is not nil
LastErrorStep(acc, c, e) ==
  IF acc.panicked THEN acc
  ELSE IF c.Name = NIL THEN acc
  ELSE IF e.isNil THEN [acc EXCEPT !.panicked = TRUE]
  ELSE IF e.Description = NIL THEN acc
  ELSE IF ~ParseOK(e.LastUpdateTime) THEN acc
  ELSE [acc EXCEPT !.lastErrors = Append(@,
          [ClusterName |-> c.Name,
           ErrorMessage |-> <<e.Description>>,
           Time |-> ParseTime(e.LastUpdateTime)])]

RECURSIVE LastErrorLoop(_, _, _)
LastErrorLoop(acc, c, es) ==
  IF es = <<>> THEN acc
  ELSE LastErrorLoop(LastErrorStep(acc, c, Head(es)), c, Tail(es))

\* a switch that would count a cluster in Processing as unhealthy
ClusterStateCountSucceededOnly(acc, state) ==
  CASE state = LastOperationStateSucceeded -> [acc EXCEPT !.succeeded = @ + 1]
    [] OTHER -> [acc EXCEPT !.unhealthy = @ + 1]

\* the operational-state switch of lines 478-485
ClusterStateCount(acc, state) ==
  CASE state = LastOperationStateSucceeded -> [acc EXCEPT !.succeeded = @ + 1]
    [] state = LastOperationStateProcessing -> [acc EXCEPT !.processing = @ + 1]
    [] OTHER -> [acc EXCEPT !.unhealthy = @ + 1]

\* one iteration of the loop over clusters; c.Status of a nil c panics
ClusterStep(acc, c) ==
  IF acc.panicked THEN acc
  ELSE IF c.isNil THEN [acc EXCEPT !.panicked = TRUE]
  ELSE IF c.State = NIL \/ c.State = ""
  THEN [acc EXCEPT !.unhealthy = @ + 1]
  ELSE LastErrorLoop(
         ConditionLoop(ClusterStateCount(acc, c.State), c, c.Conditions),
         c, c.LastErrors)

RECURSIVE ClusterLoop(_, _)
ClusterLoop(acc, clusters) ==
  IF clusters = <<>> THEN acc
  ELSE ClusterLoop(ClusterStep(acc, Head(clusters)), Tail(clusters))

\* sort.Slice(s, func(i, j) { return s[i].Time.After(s[j].Time) }).  sort.Slice
\* is documented as not stable, and what it does to entries of equal time
\* depends on the Go release the program is built with.  For slices of at most
\* 12 entries, which the data of this model stay within: Go 1.19 and later run
\* an insertion sort; Go 1.18 and earlier first run one Shell pass of gap 6
\* (which moves entries only when the slice has 7 or more) and then the
\* insertion sort.
RECURSIVE Insert(_, _)
Insert(sorted, e) ==
  IF sorted = <<>> THEN <<e>>
  ELSE IF After(e.Time, sorted[Len(sorted)].Time)
       THEN Append(Insert(SubSeq(sorted, 1, Len(sorted) - 1), e), sorted[Len(sorted)])
       ELSE Append(sorted, e)

\* insertionSort: every entry in turn moves left past the entries it is after
RECURSIVE InsertionSort(_)
InsertionSort(s) ==
  IF s = <<>> THEN <<>>
  ELSE Insert(InsertionSort(SubSeq(s, 1, Len(s) - 1)), s[Len(s)])

\* for i := a + 6; i < b; i++ { if less(i, i-6) { swap(i, i-6) } }, from entry i on
RECURSIVE ShellPass(_, _)
ShellPass(s, i) ==
  IF i > Len(s) THEN s
  ELSE IF After(s[i].Time, s[i - 6].Time)
       THEN ShellPass([s EXCEPT ![i] = s[i - 6], ![i - 6] = s[i]], i + 1)
       ELSE ShellPass(s, i + 1)

\* every result a build of the program can give for s
SortSlice(s) == {InsertionSort(s), InsertionSort(ShellPass(s, 7))}

\* rows = append(rows, []string{e.ClusterName, e.ErrorMessage})
TableRows(errs) == [i \in 1..Len(errs) |-> <<errs[i].ClusterName, errs[i].ErrorMessage>>]

\* a gauge of the cluster pane: ok * 100 / processedClusters (Go's integer division)
ClusterGaugePercent(ok, processedClusters) == (ok * 100) \div processedClusters

\* the bar chart is drawn only when a bucket is positive (line 543)
ClusterHealthAnyPositive(acc) == acc.succeeded > 0 \/ acc.processing > 0 \/ acc.unhealthy > 0

(***************************************************************************)
(* The volume pane's reductions (dashboardVolumePane.Render).              *)
(*                                                                         *)
(* A volume is [isNil, State, ProtectionState, Statistics] with Statistics *)
(* [kind, used]: kind "nil" is a nil Statistics, "partial" a nil           *)
(* PhysicalUsedStorage, "set" carries used.  A storage cluster is [isNil,  *)
(* Health, Servers, Statistics]: Health = NIL is a nil Health or a nil     *)
(* Health.State; Statistics is [kind, free, used, ratio], kind "partial"   *)
(* when one of the three pointers is nil.  ratio counts quarters (a        *)
(* CompressionRatio of 0.75 is 3), so that the float64 arithmetic of lines *)
(* 863-866 is exact on the model's values; sizes stay below 50 for the     *)
(* same reason.  A server is [isNil, State].                               *)
(***************************************************************************)
VolumeAcc0 ==
  [volumesProtectionFullyProtected |-> 0, volumesProtectionDegraded |-> 0,
   volumesProtectionReadOnly |-> 0, volumesProtectionNotAvailable |-> 0,
   volumesProtectionUnknown |-> 0,
   volumesAvailable |-> 0, volumesFailed |-> 0, volumesUnknown |-> 0, volumesOther |-> 0,
   volumesUsedPhysical |-> 0, panicked |-> FALSE]

\* the switch on *v.State
VolumeStateCount(acc, state) ==
  CASE state = "Available" -> [acc EXCEPT !.volumesAvailable = @ + 1]
    [] state = "Failed" -> [acc EXCEPT !.volumesFailed = @ + 1]
    [] state = "Unknown" -> [acc EXCEPT !.volumesUnknown = @ + 1]
    [] OTHER -> [acc EXCEPT !.volumesOther = @ + 1]

\* the switch on *v.ProtectionState
VolumeProtectionCount(acc, state) ==
  CASE state = "FullyProtected" -> [acc EXCEPT !.volumesProtectionFullyProtected = @ + 1]
    [] state = "Degraded" -> [acc EXCEPT !.volumesProtectionDegraded = @ + 1]
    [] state = "ReadOnly" -> [acc EXCEPT !.volumesProtectionReadOnly = @ + 1]
    [] state = "NotAvailable" -> [acc EXCEPT !.volumesProtectionNotAvailable = @ + 1]
    [] OTHER -> [acc EXCEPT !.volumesProtectionUnknown = @ + 1]

VolumeUsedSum(acc, stat) ==
  IF stat.kind = "set" THEN [acc EXCEPT !.volumesUsedPhysical = @ + stat.used] ELSE acc

\* one iteration of the loop over volumes; v.State of a nil v panics
VolumeStep(acc, v) ==
  IF acc.panicked THEN acc
  ELSE IF v.isNil THEN [acc EXCEPT !.panicked = TRUE]
  ELSE IF v.State = NIL \/ v.ProtectionState = NIL
  THEN [acc EXCEPT !.volumesOther = @ + 1, !.volumesProtectionUnknown = @ + 1]
  ELSE VolumeUsedSum(
         VolumeProtectionCount(VolumeStateCount(acc, v.State), v.ProtectionState),
         v.Statistics)

RECURSIVE VolumeLoop(_, _)
VolumeLoop(acc, volumes) ==
  IF volumes = <<>> THEN acc
  ELSE VolumeLoop(VolumeStep(acc, Head(volumes)), Tail(volumes))

\* a guard that would let an all-zero volume chart be drawn
VolumeStateAlwaysDrawn(acc) == TRUE

\* line 795
VolumeStateAnyPositive(acc) ==
  acc.volumesAvailable > 0 \/ acc.volumesFailed > 0 \/ acc.volumesUnknown > 0
    \/ acc.volumesOther > 0

VolumeProtectionAnyPositive(acc) ==
  acc.volumesProtectionFullyProtected > 0 \/ acc.volumesProtectionDegraded > 0
    \/ acc.volumesProtectionReadOnly > 0 \/ acc.volumesProtectionNotAvailable > 0
    \/ acc.volumesProtectionUnknown > 0

\* fmt.Sprintf("Summed up physical size of volumes: %s", helper.HumanizeSize(sum));
\* the text is kept as the number it shows
UsedSpaceText(sum) == <<"Summed up physical size of volumes: ", sum>>

StorageAcc0 ==
  [clusterStateOK |-> 0, clusterStateError |-> 0, clusterStateWarning |-> 0,
   clusterStateOther |-> 0,
   serversEnabled |-> 0, serversDisabled |-> 0, serversFailed |-> 0, serversOther |-> 0,
   physicalFree |-> 0, physicalUsed |-> 0, compressionRatio |-> 0, panicked |-> FALSE]

\* the switch on *c.Health.State
StorageHealthCount(acc, state) ==
  CASE state = "OK" -> [acc EXCEPT !.clusterStateOK = @ + 1]
    [] state = "Error" -> [acc EXCEPT !.clusterStateError = @ + 1]
    [] state = "Warning" -> [acc EXCEPT !.clusterStateWarning = @ + 1]
    [] OTHER -> [acc EXCEPT !.clusterStateOther = @ + 1]

\* one iteration of the loop over c.Servers; s.State of a nil s panics
ServerStep(acc, s) ==
  IF acc.panicked THEN acc
  ELSE IF s.isNil THEN [acc EXCEPT !.panicked = TRUE]
  ELSE CASE s.State = NIL -> [acc EXCEPT !.serversOther = @ + 1]
         [] s.State = "Enabled" -> [acc EXCEPT !.serversEnabled = @ + 1]
         [] s.State = "Disabled" -> [acc EXCEPT !.serversDisabled = @ + 1]
         [] s.State = "Failed" -> [acc EXCEPT !.serversFailed = @ + 1]
         [] OTHER -> [acc EXCEPT !.serversOther = @ + 1]

RECURSIVE ServerLoop(_, _)
ServerLoop(acc, servers) ==
  IF servers = <<>> THEN acc
  ELSE ServerLoop(ServerStep(acc, Head(servers)), Tail(servers))

StorageStatisticsSum(acc, stat) ==
  IF acc.panicked \/ stat.kind # "set" THEN acc
  ELSE [acc EXCEPT !.physicalFree = @ + stat.free, !.physicalUsed = @ + stat.used,
                   !.compressionRatio = @ + stat.ratio]

\* one iteration of the loop over storage clusters; c.Health of a nil c panics
StorageStep(acc, c) ==
  IF acc.panicked THEN acc
  ELSE IF c.isNil THEN [acc EXCEPT !.panicked = TRUE]
  ELSE IF c.Health = NIL
  THEN [acc EXCEPT !.clusterStateOther = @ + 1]
  ELSE StorageStatisticsSum(ServerLoop(StorageHealthCount(acc, c.Health), c.Servers),
                            c.Statistics)

RECURSIVE StorageLoop(_, _)
StorageLoop(acc, clusters) ==
  IF clusters = <<>> THEN acc
  ELSE StorageLoop(StorageStep(acc, Head(clusters)), Tail(clusters))

StorageStateAnyPositive(acc) ==
  acc.clusterStateOK > 0 \/ acc.clusterStateError > 0 \/ acc.clusterStateWarning > 0
    \/ acc.clusterStateOther > 0

ServerStateAnyPositive(acc) ==
  acc.serversEnabled > 0 \/ acc.serversDisabled > 0 \/ acc.serversFailed > 0
    \/ acc.serversOther > 0

\* float64 arithmetic, for the two percentages the volume pane computes with
\* it.  A positive float64 is written [sig, exp]: sig is its significand, 53
\* binary digits with the most significant first (sig[1] = 1), and exp the
\* binary exponent of sig[1]; its value is the sum of sig[i] * 2^(exp - i + 1).
\* An unrounded result is [sig, sticky, exp] with 54 digits or more in sig,
\* sticky telling that the exact value has more below them.  Every operation
\* is rounded to the nearest float64, ties to the even significand, as the
\* hardware does.

\* the number of binary digits of n >= 0
RECURSIVE BitLen(_)
BitLen(n) == IF n = 0 THEN 0 ELSE 1 + BitLen(n \div 2)

\* the lowest width binary digits of n >= 0, most significant first
BitsOf(n, width) == [i \in 1..width |-> (n \div 2^(width - i)) % 2]

\* the number with the binary digits bits
RECURSIVE BitsToInt(_)
BitsToInt(bits) ==
  IF bits = <<>> THEN 0
  ELSE 2 * BitsToInt(SubSeq(bits, 1, Len(bits) - 1)) + bits[Len(bits)]

\* float64(x) for an integer x >= 0, as the integer it is: x itself when 53
\* digits hold it, else x rounded to 53 significant digits
Float64OfInt(x) ==
  IF BitLen(x) <= 53 THEN x
  ELSE LET p == 2^(BitLen(x) - 53)
           m == x \div p
           r == x % p
           up == 2 * r > p \/ (2 * r = p /\ m % 2 = 1)
       IN (m + (IF up THEN 1 ELSE 0)) * p

\* long division of r / y for 0 <= r < y, nine binary digits (one digit of
\* base 512) at a time, until there are six: 54 binary digits and what is left
RECURSIVE QuotientDigits(_, _, _)
QuotientDigits(r, y, digits) ==
  IF Len(digits) = 6 THEN [digits |-> digits, rest |-> r]
  ELSE QuotientDigits((r * 512) % y, y, Append(digits, (r * 512) \div y))

\* x / y unrounded, for integers x > 0 and y > 0: both are shifted to the same
\* number of digits, and x once more when it is still the smaller, so that the
\* quotient starts with 1 and goes on with the digits of the long division
Float64Quotient(x, y) ==
  LET lx == BitLen(x)
      ly == BitLen(y)
      xs == x * 2^(IF ly > lx THEN ly - lx ELSE 0)
      ys == y * 2^(IF lx > ly THEN lx - ly ELSE 0)
      below == xs < ys
      q == QuotientDigits((IF below THEN 2 * xs ELSE xs) - ys, ys, <<>>)
  IN [sig |-> <<1>> \o [j \in 1..54 |->
                 (q.digits[((j - 1) \div 9) + 1] \div 2^(8 - ((j - 1) % 9))) % 2],
      sticky |-> q.rest # 0,
      exp |-> lx - ly - (IF below THEN 1 ELSE 0)]

\* an unrounded result rounded to the nearest float64, ties to even
Float64Round(f) ==
  LET m == SubSeq(f.sig, 1, 53)
      sticky == f.sticky \/ \E i \in 55..Len(f.sig) : f.sig[i] = 1
      up == f.sig[54] = 1 /\ (sticky \/ m[53] = 1)
  IN IF ~up THEN [sig |-> m, exp |-> f.exp]
     ELSE IF \A i \in 1..53 : m[i] = 1
     THEN [sig |-> [i \in 1..53 |-> IF i = 1 THEN 1 ELSE 0], exp |-> f.exp + 1]
     ELSE LET last == CHOOSE i \in 1..53 :
                         m[i] = 0 /\ \A j \in (i + 1)..53 : m[j] = 1
          IN [sig |-> [i \in 1..53 |-> IF i < last THEN m[i]
                                       ELSE IF i = last THEN 1 ELSE 0],
              exp |-> f.exp]

\* q * 100 unrounded: the significand is multiplied in three parts of 17, 18
\* and 18 digits, each product carrying into the next higher part
Float64Times100(q) ==
  LET w == 2^18
      tl == 100 * BitsToInt(SubSeq(q.sig, 36, 53))
      tm == 100 * BitsToInt(SubSeq(q.sig, 18, 35)) + tl \div w
      th == 100 * BitsToInt(SubSeq(q.sig, 1, 17)) + tm \div w
      product == BitsOf(th, BitLen(th)) \o BitsOf(tm % w, 18) \o BitsOf(tl % w, 18)
  IN [sig |-> product, sticky |-> FALSE, exp |-> q.exp + Len(product) - 53]

\* int((float64(x) / float64(y)) * 100) for integers x >= 0 and y > 0 of the
\* int64 range, the result within it: the quotient and the product are
\* rounded, and int() keeps the integer part of the product
FloatPercent(x, y) ==
  IF x = 0 THEN 0
  ELSE LET q == Float64Round(Float64Quotient(Float64OfInt(x), Float64OfInt(y)))
           p == Float64Round(Float64Times100(q))
       IN IF p.exp < 0 THEN 0
          ELSE IF p.exp <= 52 THEN BitsToInt(SubSeq(p.sig, 1, p.exp + 1))
          ELSE BitsToInt(p.sig) * 2^(p.exp - 52)

\* int((compressionRatio / float64(len(clusters))) * 100), the ratio in
\* quarters: a sum of quarters is exact in float64, and dividing both sides
\* by four changes no digit of the quotient
CompressionRatioPercent(compressionRatio, n) == FloatPercent(compressionRatio, 4 * n)

\* the value of int(NaN): Go leaves the conversion of a float64 that the integer
\* type cannot represent to the implementation (amd64 gives the least int64,
\* written here as the least integer TLC has; arm64 gives 0)
IntOfNaN == {-2147483647, 0}

\* int((float64(physicalFree) / totalStorage) * 100), every value a build can give;
\* 0/0 is NaN
PhysicalFreePercent(physicalFree, physicalUsed) ==
  IF physicalFree + physicalUsed = 0 THEN IntOfNaN
  ELSE {FloatPercent(physicalFree, physicalFree + physicalUsed)}

\* lines 867-873
PhysicalFreeBarColor(percent) ==
  IF percent < 10 THEN "red" ELSE IF percent < 30 THEN "yellow" ELSE "green"

(***************************************************************************)
(* The controller's pure parts.                                            *)
(***************************************************************************)
headerHeight == 5

\* the two tabs of dashboardTabs, in order; Name() of each.  A string that
\* is compared letter by letter is the sequence of its characters.
TabNames == <<<<"C", "l", "u", "s", "t", "e", "r", "s">>,
              <<"V", "o", "l", "u", "m", "e", "s">>>>
NumTabs == Len(TabNames)

\* unicode.ToLower on the characters of ASCII
ToLowerRune(r) ==
  LET UpperCase == <<"A", "B", "C", "D", "E", "F", "G", "H", "I", "J", "K", "L", "M",
                     "N", "O", "P", "Q", "R", "S", "T", "U", "V", "W", "X", "Y", "Z">>
      LowerCase == <<"a", "b", "c", "d", "e", "f", "g", "h", "i", "j", "k", "l", "m",
                     "n", "o", "p", "q", "r", "s", "t", "u", "v", "w", "x", "y", "z">>
  IN IF \E i \in 1..Len(UpperCase) : UpperCase[i] = r
     THEN LowerCase[CHOOSE i \in 1..Len(UpperCase) : UpperCase[i] = r]
     ELSE r

\* strings.ToLower
ToLower(name) == [i \in 1..Len(name) |-> ToLowerRune(name[i])]

\* strings.EqualFold on strings of ASCII: equal under case folding
EqualFold(a, b) == ToLower(a) = ToLower(b)

\* dashboardTabPanes.FindIndexByName: the first index (from 0) or -1 for the error
FindIndexByName(name) ==
  IF \E i \in 1..NumTabs : EqualFold(TabNames[i], name)
  THEN (CHOOSE i \in 1..NumTabs :
          /\ EqualFold(TabNames[i], name)
          /\ \A j \in 1..(i - 1) : ~EqualFold(TabNames[j], name)) - 1
  ELSE -1

ThemeKnownAny(theme) == TRUE

\* dashboardApplyTheme returns an error for every other theme
ThemeKnown(theme) == theme \in {"default", "dark"}

\* image.Rect, which SetRect builds: the corners swapped where needed
Rect(x1, y1, x2, y2) ==
  [x1 |-> IF x1 <= x2 THEN x1 ELSE x2, y1 |-> IF y1 <= y2 THEN y1 ELSE y2,
   x2 |-> IF x1 <= x2 THEN x2 ELSE x1, y2 |-> IF y1 <= y2 THEN y2 ELSE y1]

\* the switch of the deferred function on apiHealth
ColoredHealth(apiHealth, apiHealthMessage) ==
  CASE apiHealth = "healthy" -> <<apiHealth, "fg:green">>
    [] apiHealth \in {"degraded", "partial-outage"} -> <<apiHealth, "fg:yellow">>
    [] apiHealth = "unhealthy" ->
         IF apiHealthMessage # "" THEN <<apiHealth, apiHealthMessage, "fg:red">>
         ELSE <<apiHealth, "fg:red">>
    [] OTHER -> <<apiHealth>>

\* time.Now().Format("15:04:05"): the time of day, the clock counting seconds
SecondsPerDay == 86400
FormatClock(t) == t % SecondsPerDay

\* d.statusHeader.Text as the deferred function of Render writes it
StatusText(apiVersion, apiHealth, apiHealthMessage, lastErr, t) ==
  [set |-> TRUE,
   apiVersion |-> apiVersion,
   coloredHealth |-> ColoredHealth(apiHealth, apiHealthMessage),
   lastUpdate |-> FormatClock(t),
   updateError |-> lastErr]

\* the text of a new Paragraph
NoStatusText ==
  [set |-> FALSE, apiVersion |-> "", coloredHealth |-> <<>>, lastUpdate |-> 0,
   updateError |-> NoErr]

(***************************************************************************)
(* State.                                                                  *)
(***************************************************************************)
VARIABLES
  flags,    \* viper: [theme, initialTab, tenant, partition, purpose]
  term,     \* the terminal: "closed" or "open" (ui.Init / ui.Close)
  exit,     \* "running", or how the process ended: "quit", "error", "panic"
  now,      \* the wall clock as time.Now() gave it last
  ticker,   \* "unset" before time.NewTicker, then "running"
  backend,  \* what the remote API holds: [clusters, volumes, storage]
  d,        \* the dashboard (controller)
  cp,       \* the dashboardClusterPane
  vp,       \* the dashboardVolumePane
  th,       \* per goroutine: where it is and the locals of its Render calls
  vd        \* a run of the command "volume delete": its input and where it is

vars == <<flags, term, exit, now, ticker, backend, d, cp, vp, th, vd>>

\* the process is the dashboard: no volume is being deleted
NoVolumeDelete == [pc |-> "none"]

\* the goroutine of runDashboard, and two more that call Render directly
Loop == "loop"
Callers == {"g1", "g2"}
Goroutines == {Loop} \cup Callers

\* the flag --initial-tab left unset (viper.IsSet false)
Unset == <<"<unset>">>

\* the locals of a goroutine outside Render; calls lists the API calls and
\* ui.Render calls its Render call has made, got the err of every API call
\* that has returned to it, event the id of the event the loop of runDashboard
\* received last ("tick" for the ticker's channel), kept until the loop hands
\* over to Render or receives the next event
Locals(pc) ==
  [pc |-> pc, via |-> "none", pane |-> 0,
   apiVersion |-> "unknown", apiHealth |-> "unknown", apiHealthMessage |-> "",
   lastErr |-> NoErr, volumeResp |-> <<>>,
   calls |-> <<>>, got |-> <<>>, event |-> "none",
   ret |-> [op |-> "none", how |-> "none", err |-> NoErr],
   clusterErrors |-> <<>>, lastErrors |-> <<>>]

\* NewDashboard's struct before Resize, semaphore.NewWeighted(1) not acquired
NewDashboard ==
  [sem |-> FALSE, ActiveTabIndex |-> 0,
   statusHeaderRect |-> Rect(0, 0, 0, 0), filterHeaderRect |-> Rect(0, 0, 0, 0),
   tabPaneRect |-> Rect(0, 0, 0, 0),
   filterHeaderText |-> <<>>, statusHeader |-> NoStatusText]

NewDashboardClusterPane ==
  [sem |-> FALSE, rect |-> <<0, 0, 0, 0>>,
   clusterHealth |-> <<>>,
   clusterStatusAPI |-> 0, clusterStatusControl |-> 0,
   clusterStatusNodes |-> 0, clusterStatusSystem |-> 0,
   clusterProblems |-> <<>>, clusterLastErrors |-> <<>>]

NewDashboardVolumePane ==
  [sem |-> FALSE, rect |-> <<0, 0, 0, 0>>,
   volumeUsedSpace |-> <<>>,
   volumeState |-> <<>>, volumeProtectionState |-> <<>>,
   clusterState |-> <<>>, serverState |-> <<>>,
   physicalFree |-> [Percent |-> 0, BarColor |-> "theme"],
   compressionRatio |-> 0]

\* dashboard.Resize: the header bands, every pane, the tab strip
Resize(dd, x1, y1, x2, y2) ==
  [dd EXCEPT !.statusHeaderRect = Rect(x1, y1, x2 - 25, headerHeight),
             !.filterHeaderRect = Rect(x2 - 25, y1, x2, headerHeight),
             !.tabPaneRect = Rect(x1, y2 - 1, x2, y2)]

\* the rectangle Resize hands to every pane
PaneRect(x1, y1, x2, y2) == <<x1, headerHeight, x2, y2 - 1>>

\* where a goroutine continues when its outermost Render call returns: the
\* event loop reaches its select, a direct caller is done
ReturnPc(t) == IF t = Loop THEN "select" ELSE "idle"

\* a loop that would take its next event while its Render call is still running
LoopReadyAsync == th[Loop].pc \notin {"start", "exited", "crashed", "none"}

\* the select of runDashboard is reached only between two Render calls
LoopReady == th[Loop].pc = "select"

\* a lock that is taken whether or not it is held
TryAcquireAlways(sem) == TRUE

\* a lock that is never granted
TryAcquireNever(sem) == FALSE

\* semaphore.Weighted.TryAcquire(1) on a semaphore of weight 1
TryAcquire(sem) == ~sem

(***************************************************************************)
(* What the API can answer.                                                *)
(***************************************************************************)
\* a call that fails without a typed response; the code treats every such error
\* as it treats the 5 s deadline
FetchErrors == {ErrDeadline}

\* Version.Info: an error, or a payload whose Version may be nil
VersionResponses ==
  {[err |-> e, Version |-> NIL] : e \in FetchErrors}
    \cup {[err |-> NoErr, Version |-> v] : v \in {"v1.2", NIL}}

\* *health.HealthInternalServerError, which carries a payload
HealthInternalServerError == [kind |-> "HealthInternalServerError", code |-> 500]

\* Health.Health: an untyped error, or a payload [Status, Message] that comes
\* with HealthOK or with HealthInternalServerError; Status = NIL also stands
\* for a nil payload
HealthPayloads ==
  {[Status |-> "healthy", Message |-> ""],
   [Status |-> "unhealthy", Message |-> "db down"],
   [Status |-> NIL, Message |-> ""],
   [Status |-> "degraded", Message |-> NIL]}

HealthResponses ==
  {[err |-> e, Status |-> NIL, Message |-> NIL] : e \in FetchErrors}
    \cup {[err |-> e, Status |-> pl.Status, Message |-> pl.Message] :
            e \in {NoErr, HealthInternalServerError}, pl \in HealthPayloads}

\* Volume.ClusterInfo: nil, an untyped error, or *volume.ClusterInfoDefault
ClusterInfoErrors ==
  FetchErrors \cup {ClusterInfoDefault(StatusForbidden), ClusterInfoDefault(500)}

(***************************************************************************)
(* The end of a Render call.                                               *)
(***************************************************************************)
\* the locals loc after the API call has returned err
Got(loc, call, err) == [loc EXCEPT !.got = Append(@, [call |-> call, err |-> err])]

UiRender(widget) == <<"ui.Render", widget>>

\* deferred functions that would leave the lock held after a failed cycle
DeferredKeepsLockOnError(dd, loc) ==
  [dd EXCEPT !.statusHeader = StatusText(loc.apiVersion, loc.apiHealth,
                                         loc.apiHealthMessage, loc.lastErr, now'),
             !.sem = loc.lastErr # NoErr]

\* a status line that would be redrawn only at the end of a full cycle
DeferredRedrawsOnSuccess(dd, loc) ==
  [dd EXCEPT !.statusHeader = IF loc.lastErr = NoErr
                              THEN StatusText(loc.apiVersion, loc.apiHealth,
                                              loc.apiHealthMessage, loc.lastErr, now')
                              ELSE @,
             !.sem = FALSE]

\* a status line that would keep the version and health it showed before when
\* the cycle learned neither
DeferredKeepsStaleHeader(dd, loc) ==
  LET text == StatusText(loc.apiVersion, loc.apiHealth, loc.apiHealthMessage,
                         loc.lastErr, now')
      stale == dd.statusHeader.set /\ loc.apiVersion = "unknown"
  IN [dd EXCEPT !.statusHeader =
                   [text EXCEPT !.apiVersion = IF stale THEN dd.statusHeader.apiVersion
                                               ELSE @,
                                !.coloredHealth = IF stale
                                                  THEN dd.statusHeader.coloredHealth
                                                  ELSE @],
                !.sem = FALSE]

\* the deferred functions of dashboard.Render: the status line, then Release
DeferredKeepsEarlierError(dd, loc) ==
  [dd EXCEPT !.statusHeader =
               StatusText(loc.apiVersion, loc.apiHealth, loc.apiHealthMessage,
                          IF loc.lastErr = NoErr THEN dd.statusHeader.updateError
                          ELSE loc.lastErr, now'),
             !.sem = FALSE]

Deferred(dd, loc) ==
  [dd EXCEPT !.statusHeader = StatusText(loc.apiVersion, loc.apiHealth,
                                         loc.apiHealthMessage, loc.lastErr, now'),
             !.sem = FALSE]

\* Goroutine t leaves its Render call with the locals loc: a pane called by the
\* controller hands its result to lastErr and the controller's deferred
\* functions run, which read the clock (time.Now(), line 302: any instant
\* from the last one read on); a panic unwinds through them and through
\* runDashboard's deferred ui.Close, and ends the process.
Finish(t, loc, how) ==
  LET panicked == how = "panic"
      calls == IF loc.via = "controller"
               THEN Append(loc.calls, UiRender("statusHeader")) ELSE loc.calls
  IN /\ now' \in IF loc.via = "controller" THEN now..MaxNow ELSE {now}
     /\ d' = IF loc.via = "controller" THEN Deferred(d, loc) ELSE d
     /\ th' = [th EXCEPT ![t] =
                 [Locals(IF panicked THEN "crashed" ELSE ReturnPc(t)) EXCEPT
                    !.calls = calls,
                    !.got = loc.got,
                    !.ret = [op |-> IF loc.via = "controller" THEN "Render"
                                    ELSE "pane.Render",
                             how |-> how, err |-> loc.lastErr],
                    !.clusterErrors = loc.clusterErrors,
                    !.lastErrors = loc.lastErrors]]
     /\ exit' = IF panicked THEN "panic" ELSE exit
     /\ term' = IF panicked /\ t = Loop THEN "closed" ELSE term
     /\ ticker' = IF ~panicked /\ t = Loop /\ ticker = "unset" THEN "running" ELSE ticker

\* The Render of a pane returns with the locals loc, its deferred Release done
\* by the caller of this operator.  A pane called by the controller hands its
\* result to line 337; the controller's deferred functions are a later step,
\* so that another goroutine can take the pane's lock before the status line
\* is written.  A pane called directly ends the call of goroutine t.
PaneReturn(t, loc, how) ==
  IF loc.via = "controller"
  THEN /\ th' = [th EXCEPT ![t] =
                   [loc EXCEPT !.pc = "deferred",
                               !.ret = [op |-> "pane.Render", how |-> how,
                                        err |-> loc.lastErr]]]
       /\ UNCHANGED <<d, exit, term, ticker, now>>
  ELSE Finish(t, loc, how)

\* line 337 has the pane's result (or its panic): the deferred functions of
\* dashboard.Render run, the status line (284-310) and then Release (270)
RenderDeferred(t) ==
  /\ exit = "running"
  /\ th[t].pc = "deferred"
  /\ Finish(t, th[t], th[t].ret.how)
  /\ UNCHANGED <<vd, flags, backend, cp, vp>>

(***************************************************************************)
(* dashboard.Render.                                                       *)
(***************************************************************************)
\* lines 266-316: try the lock; on success draw the filter header and the tab
\* strip and issue Version.Info
RenderEnter(t) ==
  /\ exit = "running"
  /\ th[t].pc = "Render"
  /\ IF TryAcquire(d.sem)
     THEN /\ d' = [d EXCEPT !.sem = TRUE,
                            !.filterHeaderText =
                               <<flags.tenant, flags.partition, flags.purpose>>]
          /\ th' = [th EXCEPT ![t] =
                     [Locals("Version.Info") EXCEPT
                        !.via = "controller",
                        !.calls = <<UiRender("filterHeader"), UiRender("tabPane"),
                                   <<"Version.Info">>>>]]
     ELSE /\ d' = d
          /\ th' = [th EXCEPT ![t] =
                     [Locals(ReturnPc(t)) EXCEPT
                        !.ret = [op |-> "Render", how |-> "busy", err |-> NoErr]]]
  /\ UNCHANGED <<vd, flags, term, exit, now, ticker, backend, cp, vp>>

\* lines 316-322: Version.Info returns
VersionReturn(t) ==
  /\ exit = "running"
  /\ th[t].pc = "Version.Info"
  /\ \E r \in VersionResponses :
       LET loc == Got(th[t], "Version.Info", r.err)
       IN IF r.err # NoErr
          THEN Finish(t, [loc EXCEPT !.lastErr = r.err], "done")
          ELSE IF r.Version = NIL
          THEN Finish(t, loc, "panic")
          ELSE /\ th' = [th EXCEPT ![t] = [loc EXCEPT
                                             !.apiVersion = r.Version,
                                             !.pc = "Health.Health",
                                             !.calls = Append(@, <<"Health.Health">>)]]
               /\ UNCHANGED <<d, exit, term, ticker, now>>
  /\ UNCHANGED <<vd, flags, backend, cp, vp>>

\* a check that would tolerate no error of Health.Health
HealthToleratedNever(err) == FALSE

\* errors.As(err, &r) with r a *health.HealthInternalServerError
HealthTolerated(err) == err = HealthInternalServerError

\* a controller that always renders its first pane
ActivePaneFirst(dd) == 0

\* d.tabs[d.tabPane.ActiveTabIndex]: the pane whose Render line 337 calls
ActivePane(dd) == dd.ActiveTabIndex

\* lines 322-337: Health.Health returns; the controller then calls Render of
\* the active pane
HealthReturn(t) ==
  /\ exit = "running"
  /\ th[t].pc = "Health.Health"
  /\ \E r \in HealthResponses :
       LET loc == Got(th[t], "Health.Health", r.err)
       IN IF r.err # NoErr /\ ~HealthTolerated(r.err)
          THEN Finish(t, [loc EXCEPT !.lastErr = r.err], "done")
          ELSE IF r.Status = NIL
          THEN Finish(t, loc, "panic")
          ELSE IF r.Message = NIL
          THEN Finish(t, [loc EXCEPT !.apiHealth = r.Status], "panic")
          ELSE /\ th' = [th EXCEPT ![t] = [loc EXCEPT
                                             !.apiHealth = r.Status,
                                             !.apiHealthMessage = r.Message,
                                             !.pane = ActivePane(d),
                                             !.pc = "pane.Render"]]
               /\ UNCHANGED <<d, exit, term, ticker, now>>
  /\ UNCHANGED <<vd, flags, backend, cp, vp>>

(***************************************************************************)
(* Render of a pane.                                                       *)
(***************************************************************************)
\* lines 433-466 and 680-727: try the pane's lock; on success issue the
\* primary fetch with the filters read from viper
PaneEnter(t) ==
  /\ exit = "running"
  /\ th[t].pc = "pane.Render"
  /\ IF th[t].pane = 0
     THEN IF TryAcquire(cp.sem)
          THEN /\ cp' = [cp EXCEPT !.sem = TRUE]
               /\ th' = [th EXCEPT ![t].pc = "FindClusters",
                                   ![t].calls = Append(@, <<"FindClusters",
                                       flags.partition, flags.tenant, flags.purpose>>)]
               /\ UNCHANGED <<d, vp, exit, term, ticker, now>>
          ELSE /\ Finish(t, [th[t] EXCEPT !.lastErr = NoErr],
                         IF th[t].via = "direct" THEN "busy" ELSE "done")
               /\ UNCHANGED <<cp, vp>>
     ELSE IF TryAcquire(vp.sem)
          THEN /\ vp' = [vp EXCEPT !.sem = TRUE]
               /\ th' = [th EXCEPT ![t].pc = "FindVolumes",
                                   ![t].calls = Append(@, <<"FindVolumes",
                                       flags.partition, flags.tenant>>)]
               /\ UNCHANGED <<d, cp, exit, term, ticker, now>>
          ELSE /\ Finish(t, [th[t] EXCEPT !.lastErr = NoErr],
                         IF th[t].via = "direct" THEN "busy" ELSE "done")
               /\ UNCHANGED <<cp, vp>>
  /\ UNCHANGED <<vd, flags, backend>>

\* an error return that would skip the Release
FetchFailedKeepsLock(pane) == pane

\* "return err" after the primary fetch failed: only the deferred Release runs
FetchFailed(pane) == [pane EXCEPT !.sem = FALSE]

\* lines 537-572: the widgets of the cluster pane after a fetch of n > 0
\* clusters reduced to acc, the two slices of acc sorted
ClusterPaneDraw(pane, acc, n) ==
  [pane EXCEPT
     !.clusterHealth = IF ClusterHealthAnyPositive(acc)
                       THEN <<acc.succeeded, acc.processing, acc.unhealthy>> ELSE @,
     !.clusterProblems = TableRows(acc.clusterErrors),
     !.clusterLastErrors = TableRows(acc.lastErrors),
     !.clusterStatusAPI = ClusterGaugePercent(acc.apiOK, n),
     !.clusterStatusControl = ClusterGaugePercent(acc.controlOK, n),
     !.clusterStatusNodes = ClusterGaugePercent(acc.nodesOK, n),
     !.clusterStatusSystem = ClusterGaugePercent(acc.systemOK, n)]

\* the ui.Render calls of lines 545-572, in order
ClusterPaneCalls(acc) ==
  (IF ClusterHealthAnyPositive(acc) THEN <<UiRender("clusterHealth")>> ELSE <<>>)
    \o <<UiRender("clusterProblems"), UiRender("clusterLastErrors"),
         UiRender("clusterStatusAPI"), UiRender("clusterStatusControl"),
         UiRender("clusterStatusNodes"), UiRender("clusterStatusSystem")>>

\* lines 467-575: FindClusters returns; reduce, draw, release, return
FindClustersReturn(t) ==
  /\ exit = "running"
  /\ th[t].pc = "FindClusters"
  /\ \E err \in {NoErr} \cup FetchErrors :
       LET clusters == backend.clusters
           acc == ClusterLoop(ClusterAcc0, clusters)
           processedClusters == Len(clusters)
           loc == Got(th[t], "FindClusters", err)
       IN IF err # NoErr
          THEN /\ cp' = FetchFailed(cp)
               /\ PaneReturn(t, [loc EXCEPT !.lastErr = err], "done")
          ELSE IF acc.panicked
          THEN /\ cp' = [cp EXCEPT !.sem = FALSE]
               /\ PaneReturn(t, loc, "panic")
          ELSE IF processedClusters <= 0
          THEN /\ cp' = [cp EXCEPT !.sem = FALSE]
               /\ PaneReturn(t, [loc EXCEPT !.lastErr = NoErr], "done")
          ELSE \E clusterErrors \in SortSlice(acc.clusterErrors),
                  lastErrors \in SortSlice(acc.lastErrors) :
                 LET sorted == [acc EXCEPT !.clusterErrors = clusterErrors,
                                           !.lastErrors = lastErrors]
                 IN /\ cp' = [ClusterPaneDraw(cp, sorted, processedClusters)
                                EXCEPT !.sem = FALSE]
                    /\ PaneReturn(t, [loc EXCEPT
                                    !.lastErr = NoErr,
                                    !.calls = @ \o ClusterPaneCalls(acc),
                                    !.clusterErrors = clusterErrors,
                                    !.lastErrors = lastErrors], "done")
  /\ UNCHANGED <<vd, flags, backend, vp>>

\* lines 728-735: FindVolumes returns; on success issue ClusterInfo
FindVolumesReturn(t) ==
  /\ exit = "running"
  /\ th[t].pc = "FindVolumes"
  /\ \E err \in {NoErr} \cup FetchErrors :
       LET loc == Got(th[t], "FindVolumes", err)
       IN IF err # NoErr
          THEN /\ vp' = FetchFailed(vp)
               /\ PaneReturn(t, [loc EXCEPT !.lastErr = err], "done")
          ELSE /\ th' = [th EXCEPT ![t] = [loc EXCEPT
                            !.volumeResp = backend.volumes,
                            !.pc = "ClusterInfo",
                            !.calls = Append(@, <<"ClusterInfo", flags.partition>>)]]
               /\ UNCHANGED <<d, vp, exit, term, ticker, now>>
  /\ UNCHANGED <<vd, flags, backend, cp>>

\* lines 791-804: the widgets fed from the volumes
VolumePaneDrawVolumes(pane, acc) ==
  [pane EXCEPT
     !.volumeUsedSpace = UsedSpaceText(acc.volumesUsedPhysical),
     !.volumeState = IF VolumeStateAnyPositive(acc)
                     THEN <<acc.volumesAvailable, acc.volumesFailed,
                            acc.volumesUnknown, acc.volumesOther>> ELSE @,
     !.volumeProtectionState = IF VolumeProtectionAnyPositive(acc)
                               THEN <<acc.volumesProtectionFullyProtected,
                                      acc.volumesProtectionDegraded,
                                      acc.volumesProtectionReadOnly,
                                      acc.volumesProtectionNotAvailable,
                                      acc.volumesProtectionUnknown>> ELSE @]

VolumePaneCallsVolumes(acc) ==
  <<UiRender("volumeUsedSpace")>>
    \o (IF VolumeStateAnyPositive(acc) THEN <<UiRender("volumeState")>> ELSE <<>>)
    \o (IF VolumeProtectionAnyPositive(acc)
        THEN <<UiRender("volumeProtectionState")>> ELSE <<>>)

\* lines 863-887: the widgets fed from n > 0 storage clusters, percent being
\* the value the conversion of line 866 gave
VolumePaneDrawStorage(pane, acc, n, percent) ==
  [pane EXCEPT
     !.compressionRatio = CompressionRatioPercent(acc.compressionRatio, n),
     !.physicalFree = [Percent |-> percent, BarColor |-> PhysicalFreeBarColor(percent)],
     !.clusterState = IF StorageStateAnyPositive(acc)
                      THEN <<acc.clusterStateOK, acc.clusterStateWarning,
                             acc.clusterStateError, acc.clusterStateOther>> ELSE @,
     !.serverState = IF ServerStateAnyPositive(acc)
                     THEN <<acc.serversEnabled, acc.serversDisabled,
                            acc.serversFailed, acc.serversOther>> ELSE @]

VolumePaneCallsStorage(acc) ==
  <<UiRender("compressionRatio"), UiRender("physicalFree")>>
    \o (IF StorageStateAnyPositive(acc) THEN <<UiRender("clusterState")>> ELSE <<>>)
    \o (IF ServerStateAnyPositive(acc) THEN <<UiRender("serverState")>> ELSE <<>>)

\* a check that would tolerate no error of ClusterInfo
IsForbiddenNever(err) == FALSE

\* a check that would tolerate every typed error of ClusterInfo
IsForbiddenAnyCode(err) == err.kind = "ClusterInfoDefault"

\* errors.As(err, &typedErr) && typedErr.Code() == http.StatusForbidden
IsForbidden(err) == err.kind = "ClusterInfoDefault" /\ err.code = StatusForbidden

\* a pane that has set its volume widgets from the volumes fetched before
\* ClusterInfo's error makes it return
ClusterInfoFailedDrawsVolumes(p, vacc) ==
  [VolumePaneDrawVolumes(p, vacc) EXCEPT !.sem = FALSE]

\* the pane when an error of ClusterInfo makes Render return (lines 740, 744):
\* the volumes fetched, vacc, are looked at only after line 748, so no widget
\* has been written; the deferred Release frees the lock
ClusterInfoFailed(p, vacc) == [p EXCEPT !.sem = FALSE]

\* lines 736-890: ClusterInfo returns; a Forbidden leaves infoResp nil
ClusterInfoReturn(t) ==
  /\ exit = "running"
  /\ th[t].pc = "ClusterInfo"
  /\ \E err \in {NoErr} \cup ClusterInfoErrors :
       LET vacc == VolumeLoop(VolumeAcc0, th[t].volumeResp)
           vp1 == [VolumePaneDrawVolumes(vp, vacc) EXCEPT !.sem = FALSE]
           loc == Got(th[t], "ClusterInfo", err)
           loc1 == [loc EXCEPT !.lastErr = NoErr,
                               !.calls = @ \o VolumePaneCallsVolumes(vacc)]
           clusters == backend.storage
           sacc == StorageLoop(StorageAcc0, clusters)
       IN IF err # NoErr /\ ~IsForbidden(err)
          THEN /\ vp' = ClusterInfoFailed(vp, vacc)
               /\ PaneReturn(t, [loc EXCEPT !.lastErr = err], "done")
          ELSE IF vacc.panicked
          THEN /\ vp' = [vp EXCEPT !.sem = FALSE]
               /\ PaneReturn(t, loc, "panic")
          ELSE IF err # NoErr \/ Len(clusters) = 0
          THEN /\ vp' = vp1
               /\ PaneReturn(t, loc1, "done")
          ELSE IF sacc.panicked
          THEN /\ vp' = vp1
               /\ PaneReturn(t, [loc1 EXCEPT !.lastErr = loc.lastErr], "panic")
          ELSE \E percent \in PhysicalFreePercent(sacc.physicalFree, sacc.physicalUsed) :
                 /\ vp' = VolumePaneDrawStorage(vp1, sacc, Len(clusters), percent)
                 /\ PaneReturn(t, [loc1 EXCEPT !.calls = @ \o VolumePaneCallsStorage(sacc)],
                           "done")
  /\ UNCHANGED <<vd, flags, backend, cp>>

(***************************************************************************)
(* runDashboard.                                                           *)
(***************************************************************************)
\* the terminal sizes ui.TerminalDimensions and a <Resize> event report
TermSizes == {<<80, 24>>, <<30, 4>>}

\* strconv.Itoa and strconv.Atoi on the key ids of the model
Itoa(n) == <<"1", "2", "3", "4", "5", "6", "7", "8", "9">>[n]
\* a conversion that is one too high
AtoiOneTooHigh(id) == (CHOOSE n \in 1..9 : Itoa(n) = id) + 1

Atoi(id) == CHOOSE n \in 1..9 : Itoa(n) = id

\* panelNumbers of lines 133-136
panelNumbersUpToThree == {Itoa(i + 1) : i \in 0..NumTabs}

panelNumbers == {Itoa(i + 1) : i \in 0..(NumTabs - 1)}

\* key ids other than the quit keys and <Resize>
OtherKeys == {"1", "2", "3", "x"}

\* lines 112-128: ui.Init, NewDashboard, the first Resize, the call of Render
Start ==
  /\ exit = "running"
  /\ th[Loop].pc = "start"
  /\ \E initOK \in BOOLEAN, size \in TermSizes :
       LET initialPanelIndex ==
             IF flags.initialTab = Unset THEN 0 ELSE FindIndexByName(flags.initialTab)
       IN IF ~initOK
          THEN /\ exit' = "error"
               /\ th' = [th EXCEPT ![Loop].pc = "exited"]
               /\ UNCHANGED <<term, d, cp, vp>>
          ELSE IF ~ThemeKnown(flags.theme) \/ initialPanelIndex = -1
          THEN /\ exit' = "error"
               /\ term' = "closed"
               /\ th' = [th EXCEPT ![Loop].pc = "exited"]
               /\ UNCHANGED <<d, cp, vp>>
          ELSE /\ term' = "open"
               /\ d' = Resize([NewDashboard EXCEPT !.ActiveTabIndex = initialPanelIndex],
                              0, 0, size[1], size[2])
               /\ cp' = [cp EXCEPT !.rect = PaneRect(0, 0, size[1], size[2])]
               /\ vp' = [vp EXCEPT !.rect = PaneRect(0, 0, size[1], size[2])]
               /\ th' = [th EXCEPT ![Loop] = Locals("Render")]
               /\ UNCHANGED exit
  /\ UNCHANGED <<vd, flags, now, ticker, backend>>

\* case <-ticker.C: d.Render()
SelectTick ==
  /\ exit = "running"
  /\ LoopReady
  /\ ticker = "running"
  /\ th' = [th EXCEPT ![Loop] = [Locals("Render") EXCEPT !.event = "tick"]]
  /\ UNCHANGED <<vd, flags, term, exit, now, ticker, backend, d, cp, vp>>

SelectQuitKeepsTerminal ==
  /\ exit = "running"
  /\ LoopReady
  /\ \E id \in {"q", "<C-c>"} :
       /\ exit' = "quit"
       /\ th' = [th EXCEPT ![Loop].pc = "exited", ![Loop].event = id]
  /\ UNCHANGED <<vd, flags, term, now, ticker, backend, d, cp, vp>>

\* case "q", "<C-c>": return nil, and the deferred ui.Close
SelectQuit ==
  /\ exit = "running"
  /\ LoopReady
  /\ \E id \in {"q", "<C-c>"} :
       /\ exit' = "quit"
       /\ term' = "closed"
       /\ th' = [th EXCEPT ![Loop].pc = "exited", ![Loop].event = id]
  /\ UNCHANGED <<vd, flags, now, ticker, backend, d, cp, vp>>

\* case "<Resize>": d.Resize, ui.Clear, d.Render
SelectResize ==
  /\ exit = "running"
  /\ LoopReady
  /\ \E size \in TermSizes :
       /\ d' = Resize(d, 0, 0, size[1], size[2])
       /\ cp' = [cp EXCEPT !.rect = PaneRect(0, 0, size[1], size[2])]
       /\ vp' = [vp EXCEPT !.rect = PaneRect(0, 0, size[1], size[2])]
  /\ th' = [th EXCEPT ![Loop] = [Locals("Render") EXCEPT !.event = "<Resize>",
                                                          !.calls = <<<<"ui.Clear">>>>]]
  /\ UNCHANGED <<vd, flags, term, exit, now, ticker, backend>>

\* default: a panel number switches the tab, clears and renders; any other key
\* is ignored
SelectKey ==
  /\ exit = "running"
  /\ LoopReady
  /\ \E id \in OtherKeys :
       IF id \in panelNumbers
       THEN /\ d' = [d EXCEPT !.ActiveTabIndex = Atoi(id) - 1]
            /\ th' = [th EXCEPT ![Loop] =
                        [Locals("Render") EXCEPT !.event = id,
                                                 !.calls = <<<<"ui.Clear">>>>]]
       ELSE /\ th' = [th EXCEPT ![Loop].event = id]
            /\ UNCHANGED d
  /\ UNCHANGED <<vd, flags, term, exit, now, ticker, backend, cp, vp>>

(***************************************************************************)
(* The records the API serves.                                             *)
(***************************************************************************)
Cluster(name, state, conditions, lastErrors) ==
  [isNil |-> FALSE, Name |-> name, State |-> state,
   Conditions |-> conditions, LastErrors |-> lastErrors]
NilCluster ==
  [isNil |-> TRUE, Name |-> NIL, State |-> NIL, Conditions |-> <<>>, LastErrors |-> <<>>]
Condition(status, type, message, ts) ==
  [isNil |-> FALSE, Status |-> status, Type |-> type, Message |-> message,
   LastUpdateTime |-> ts]
LastError(description, ts) ==
  [isNil |-> FALSE, Description |-> description, LastUpdateTime |-> ts]
NilLastError == [isNil |-> TRUE, Description |-> NIL, LastUpdateTime |-> TsBad]

NoStatistics == [kind |-> "nil", free |-> 0, used |-> 0, ratio |-> 0]
PartialStatistics == [kind |-> "partial", free |-> 0, used |-> 0, ratio |-> 0]
Statistics(free, used, ratio) == [kind |-> "set", free |-> free, used |-> used, ratio |-> ratio]
Volume(state, protectionState, statistics) ==
  [isNil |-> FALSE, State |-> state, ProtectionState |-> protectionState,
   Statistics |-> statistics]
Server(state) == [isNil |-> FALSE, State |-> state]
StorageCluster(health, servers, statistics) ==
  [isNil |-> FALSE, Health |-> health, Servers |-> servers, Statistics |-> statistics]

SeqsUpTo(S, n) == UNION {[1..k -> S] : k \in 0..n}
Copies(x, n) == [i \in 1..n |-> x]

World(clusters, volumes, storage) ==
  [clusters |-> clusters, volumes |-> volumes, storage |-> storage]

\* the data sets the API switches between while the dashboard runs
RunWorlds ==
  {World(<<Cluster("b", "Failed",
                   <<Condition("False", ShootControlPlaneHealthy, "down", Ts(2, 0))>>,
                   <<LastError("boom", Ts(3, 1))>>),
           Cluster("a", LastOperationStateSucceeded,
                   <<Condition(ConditionTrue, ShootAPIServerAvailable, "ok", Ts(1, 0))>>,
                   <<>>)>>,
         <<Volume("Available", "FullyProtected", Statistics(0, 2, 0))>>,
         <<StorageCluster("OK", <<Server("Enabled")>>, Statistics(3, 1, 2))>>),
   World(<<>>, <<>>, <<StorageCluster("Warning", <<>>, NoStatistics)>>)}

\* timestamps: absent, unparseable, every hour in UTC, and the last hour once
\* more in a zone one hour ahead (the same instant as the hour before it)
Timestamps ==
  {TsNil, TsBad} \cup {Ts(h, 0) : h \in 1..MaxHour} \cup {Ts(MaxHour, 1)}

\* a message that names the wall-clock hour of its timestamp
Wall(ts) == IF ts.kind = "rfc3339" THEN Itoa(ts.wall) ELSE ts.kind

\* clusters that differ in their operational state
StateClusters ==
  {Cluster("a", s, <<>>, <<>>) :
     s \in {NIL, "", LastOperationStateSucceeded, LastOperationStateProcessing, "Failed"}}
    \cup {NilCluster}

\* conditions that differ in status and type
GaugeConditions ==
  {Condition(st, ty, "m", Ts(1, 0)) :
     st \in {ConditionTrue, "False"},
     ty \in {ShootAPIServerAvailable, ShootControlPlaneHealthy}}
    \cup {Condition(NIL, ShootAPIServerAvailable, "m", Ts(1, 0)),
          Condition(ConditionTrue, NIL, "m", Ts(1, 0)),
          Condition(ConditionProgressing, ShootEveryNodeReady, "m", Ts(1, 0)),
          Condition(ConditionTrue, ShootSystemComponentsHealthy, "m", Ts(1, 0))}

\* clusters with one failing condition, which differ in what the problem table
\* needs; the last has a condition and a last error but no operational state
ProblemClusters ==
  {Cluster("a", LastOperationStateSucceeded,
           <<Condition("False", ShootAPIServerAvailable, Wall(ts), ts)>>, <<>>) :
     ts \in Timestamps}
    \cup {Cluster(NIL, LastOperationStateSucceeded,
                  <<Condition("False", ShootAPIServerAvailable, "m", Ts(1, 0))>>, <<>>),
          Cluster("b", LastOperationStateProcessing,
                  <<Condition("Unknown", ShootEveryNodeReady, NIL, Ts(1, 0))>>, <<>>),
          Cluster("c", "",
                  <<Condition("False", ShootAPIServerAvailable, "m", Ts(1, 0))>>,
                  <<LastError("e", Ts(1, 0))>>)}

\* clusters with one last error, which differ in what the error table needs
LastErrorClusters ==
  {Cluster("a", LastOperationStateSucceeded, <<>>, <<LastError(Wall(ts), ts)>>) :
     ts \in Timestamps \ {TsNil}}
    \cup {Cluster(NIL, LastOperationStateSucceeded, <<>>, <<LastError("e", Ts(1, 0))>>),
          Cluster("b", "Failed", <<>>, <<LastError(NIL, Ts(1, 0))>>),
          Cluster("b", "Failed", <<>>, <<NilLastError>>)}

\* the lists of up to maxRecords clusters, of up to maxConditions conditions;
\* among them lists of clusters of one healthy condition, two that have no
\* operational state and one that has
ClusterLists(maxRecords, maxConditions) ==
  SeqsUpTo(StateClusters, maxRecords)
    \cup {Copies(Cluster("a", LastOperationStateSucceeded, cs, <<>>), n) :
            cs \in SeqsUpTo(GaugeConditions, maxConditions), n \in 1..maxRecords}
    \cup SeqsUpTo(ProblemClusters, maxRecords)
    \cup SeqsUpTo(
           {Cluster("c", "",
                    <<Condition(ConditionTrue, ShootAPIServerAvailable, "m", Ts(1, 0))>>, <<>>),
            Cluster("c", NIL,
                    <<Condition(ConditionProgressing, ShootEveryNodeReady, "m", Ts(1, 0))>>, <<>>),
            Cluster("a", LastOperationStateSucceeded,
                    <<Condition(ConditionTrue, ShootAPIServerAvailable, "m", Ts(1, 0))>>, <<>>)},
           maxRecords)
    \cup SeqsUpTo(LastErrorClusters, maxRecords)

\* tieRecords clusters named by their place in the list, each with one problem
\* and one last error stamped at hour 1 or hour 2
TieLists(tieRecords) ==
  {[i \in 1..tieRecords |->
      Cluster(Itoa(i), LastOperationStateSucceeded,
              <<Condition("False", ShootAPIServerAvailable, Itoa(h[i]), Ts(h[i], 0))>>,
              <<LastError(Itoa(h[i]), Ts(h[i], 0))>>)] :
     h \in [1..tieRecords -> 1..2]}

\* volumes that differ in state, in protection state, in statistics
Volumes ==
  {Volume(x[1], x[2], x[3]) :
     x \in {<<"Available", "FullyProtected", Statistics(0, 1, 0)>>,
            <<"Failed", "Degraded", NoStatistics>>,
            <<"Unknown", "ReadOnly", PartialStatistics>>,
            <<"Creating", "NotAvailable", Statistics(0, 2, 0)>>,
            <<"Available", "Unknown", NoStatistics>>,
            <<"Available", "Rebuilding", NoStatistics>>,
            <<NIL, "Degraded", Statistics(0, 1, 0)>>,
            <<"Available", NIL, NoStatistics>>}}

\* storage clusters that differ in health, in servers, in statistics
StorageClusters ==
  {StorageCluster(x[1], x[2], x[3]) :
     x \in {<<"OK", <<Server("Enabled")>>, Statistics(1, 1, 2)>>,
            <<"Warning", <<Server("Disabled"), Server("Failed")>>, Statistics(0, 3, 4)>>,
            <<"Error", <<Server(NIL), Server("Creating")>>, PartialStatistics>>,
            <<"None", <<>>, NoStatistics>>,
            <<"Degraded", <<>>, Statistics(2, 0, 10)>>,
            <<NIL, <<Server("Enabled")>>, Statistics(1, 1, 2)>>,
            <<"OK", <<>>, Statistics(3, 1, 3)>>}}

\* the data sets a single Render of a pane is checked on: lists of up to
\* maxRecords records, and lists of tieRecords clusters
PaneWorlds(maxRecords, maxConditions, tieRecords) ==
  {World(cs, <<>>, <<>>) :
     cs \in ClusterLists(maxRecords, maxConditions) \cup TieLists(tieRecords)}
    \cup {World(<<>>, vs, <<>>) : vs \in SeqsUpTo(Volumes, maxRecords)}
    \cup {World(<<>>, <<>>, ss) : ss \in SeqsUpTo(StorageClusters, maxRecords)}

\* the panes whose Render reads the records of world w: the cluster pane
\* reads the clusters, the volume pane the volumes and the storage clusters
PanesReading(w) ==
  IF w.clusters # <<>> THEN {0}
  ELSE IF w.volumes # <<>> \/ w.storage # <<>> THEN {1}
  ELSE 0..(NumTabs - 1)

\* the API's data changes
BackendChange ==
  /\ exit = "running"
  /\ \E w \in RunWorlds \ {backend} : backend' = w
  /\ UNCHANGED <<vd, flags, term, exit, now, ticker, d, cp, vp, th>>

(***************************************************************************)
(* The program: runDashboard on its own goroutine.                         *)
(***************************************************************************)
\* the flags the command is started with
FlagSets ==
  {[theme |-> x[1], initialTab |-> x[2], tenant |-> "t1", partition |-> "", purpose |-> "p"] :
     x \in {<<"default", Unset>>, <<"dark", <<"v", "O", "L", "U", "M", "E", "S">>>>, <<"light", Unset>>,
            <<"default", <<"m", "a", "c", "h", "i", "n", "e", "s">>>>}}

Init ==
  /\ flags \in FlagSets
  /\ term = "closed"
  /\ exit = "running"
  /\ now = 0
  /\ ticker = "unset"
  /\ backend \in RunWorlds
  /\ d = NewDashboard
  /\ cp = NewDashboardClusterPane
  /\ vp = NewDashboardVolumePane
  /\ th = [t \in Goroutines |-> Locals(IF t = Loop THEN "start" ELSE "none")]
  /\ vd = NoVolumeDelete

Next ==
  \/ Start
  \/ SelectTick
  \/ SelectQuit
  \/ SelectResize
  \/ SelectKey
  \/ BackendChange
  \/ RenderEnter(Loop)
  \/ VersionReturn(Loop)
  \/ HealthReturn(Loop)
  \/ PaneEnter(Loop)
  \/ FindClustersReturn(Loop)
  \/ FindVolumesReturn(Loop)
  \/ ClusterInfoReturn(Loop)
  \/ RenderDeferred(Loop)

Spec == Init /\ [][Next]_vars

(***************************************************************************)
(* Render and the panes' Render called directly, by goroutines of their    *)
(* own, on a dashboard that is constructed and sized.                      *)
(***************************************************************************)
InvokeRender(t) ==
  /\ exit = "running"
  /\ th[t].pc = "idle"
  /\ th' = [th EXCEPT ![t] = Locals("Render")]
  /\ UNCHANGED <<vd, flags, term, exit, now, ticker, backend, d, cp, vp>>

InvokePaneRender(t, panes) ==
  /\ exit = "running"
  /\ th[t].pc = "idle"
  /\ \E p \in panes :
       th' = [th EXCEPT ![t] = [Locals("pane.Render") EXCEPT !.via = "direct", !.pane = p]]
  /\ UNCHANGED <<vd, flags, term, exit, now, ticker, backend, d, cp, vp>>

Constructed(worlds, callers) ==
  /\ flags \in {f \in FlagSets : f.theme = "default" /\ f.initialTab = Unset}
  /\ term = "open"
  /\ exit = "running"
  /\ now = 0
  /\ ticker = "unset"
  /\ backend \in worlds
  /\ d = Resize(NewDashboard, 0, 0, 80, 24)
  /\ cp = [NewDashboardClusterPane EXCEPT !.rect = PaneRect(0, 0, 80, 24)]
  /\ vp = [NewDashboardVolumePane EXCEPT !.rect = PaneRect(0, 0, 80, 24)]
  /\ th = [t \in Goroutines |-> Locals(IF t \in callers THEN "idle" ELSE "none")]
  /\ vd = NoVolumeDelete

InitCallers == Constructed(RunWorlds, Callers)

NextCallers ==
  \E t \in Callers :
    \/ InvokeRender(t)
    \/ InvokePaneRender(t, 0..(NumTabs - 1))
    \/ RenderEnter(t)
    \/ VersionReturn(t)
    \/ HealthReturn(t)
    \/ PaneEnter(t)
    \/ FindClustersReturn(t)
    \/ FindVolumesReturn(t)
    \/ ClusterInfoReturn(t)
    \/ RenderDeferred(t)

SpecCallers == InitCallers /\ [][NextCallers]_vars

(***************************************************************************)
(* One goroutine calling, on every data set, Render of the pane that reads *)
(* the data set's records.                                                 *)
(***************************************************************************)
InitPanes == Constructed(PaneWorlds(MaxRecords, MaxConditions, TieRecords), {"g1"})

NextPanes ==
  \/ InvokePaneRender("g1", PanesReading(backend))
  \/ PaneEnter("g1")
  \/ FindClustersReturn("g1")
  \/ FindVolumesReturn("g1")
  \/ ClusterInfoReturn("g1")

SpecPanes == InitPanes /\ [][NextPanes]_vars

(***************************************************************************)
(* Properties.                                                             *)
(***************************************************************************)
InSeq(x, s) == \E i \in 1..Len(s) : s[i] = x
Occurrences(x, s) == Cardinality({i \in 1..Len(s) : s[i] = x})
IsApiCall(c) == c[1] \in {"Version.Info", "Health.Health", "FindClusters",
                          "FindVolumes", "ClusterInfo"}
\* goroutine t takes the step
Steps(t) == th'[t] # th[t]
\* the lock of the pane goroutine t is about to render
PaneSem(t) == IF th[t].pane = 0 THEN cp.sem ELSE vp.sem
\* where goroutine t is once the Render of its pane has returned: a direct
\* caller has its result, the controller has its deferred functions to run
PaneReturnPc(t) == IF th[t].via = "controller" THEN "deferred" ELSE ReturnPc(t)
\* goroutine t runs the deferred functions of dashboard.Render after its pane
\* has returned normally
RunsDeferred(t) == th[t].pc = "deferred" /\ th[t].ret.how = "done" /\ Steps(t)
\* goroutine t takes the step in which call returns err to it
Returns(t, call, err) ==
  /\ Steps(t)
  /\ th[t].pc = call
  /\ Len(th'[t].got) = Len(th[t].got) + 1
  /\ th'[t].got[Len(th'[t].got)] = [call |-> call, err |-> err]
\* the last API call that returned in goroutine t's last Render call returned err
LastGot(t, call, err) ==
  /\ th[t].got # <<>>
  /\ th[t].got[Len(th[t].got)] = [call |-> call, err |-> err]
\* goroutine t is inside dashboard.Render, the lock acquired
InCycle(t) == th[t].via = "controller"
   /\ th[t].pc \in {"Version.Info", "Health.Health", "pane.Render",
                    "FindClusters", "FindVolumes", "ClusterInfo", "deferred"}

\* C1: a Render call of the controller or of a pane that finds its owner's lock
\* held returns at once (the pane with a nil error), issues no API call, leaves
\* every widget, the status line and both kinds of lock as they are, and leaves
\* nothing behind that would run later.
C1_BusyRenderIsNoOp ==
  [][\A t \in Goroutines :
       /\ (th[t].pc = "Render" /\ d.sem /\ Steps(t)) =>
            /\ th'[t].pc = ReturnPc(t)
            /\ th'[t].ret = [op |-> "Render", how |-> "busy", err |-> NoErr]
            /\ th'[t].calls = <<>>
            /\ d' = d /\ cp' = cp /\ vp' = vp
       /\ (th[t].pc = "pane.Render" /\ PaneSem(t) /\ Steps(t)) =>
            /\ th'[t].pc = ReturnPc(t)
            /\ th'[t].ret.err = NoErr
            /\ \A i \in 1..Len(th'[t].calls) :
                  i > Len(th[t].calls) => ~IsApiCall(th'[t].calls[i])
            /\ cp' = cp /\ vp' = vp
            /\ th[t].via = "direct" => (d' = d /\ th'[t].calls = <<>>)
            /\ th[t].via = "controller" => d'.statusHeader.updateError = NoErr
    ]_vars

\* C1 witness: a dropped Render call while the other goroutine holds the
\* controller's lock and waits for its clusters
C1_Witness ==
  \E t, u \in Callers :
    /\ th[t].ret = [op |-> "Render", how |-> "busy", err |-> NoErr]
    /\ th[t].pc = "idle"
    /\ d.sem /\ cp.sem
    /\ th[u].pc = "FindClusters" /\ th[u].via = "controller"

\* C2: at most one render cycle of the controller is in progress, and while
\* one is, neither the geometry nor the active tab changes.
C2_RendersDoNotOverlap ==
  [][/\ Cardinality({t \in Goroutines : InCycle(t)}) <= 1
     /\ (d.sem <=> \E t \in Goroutines : InCycle(t))
     /\ d.sem =>
          /\ d'.ActiveTabIndex = d.ActiveTabIndex
          /\ d'.statusHeaderRect = d.statusHeaderRect
          /\ d'.filterHeaderRect = d.filterHeaderRect
          /\ d'.tabPaneRect = d.tabPaneRect
          /\ cp'.rect = cp.rect /\ vp'.rect = vp.rect
    ]_vars

\* C2 witness: a cycle in flight on the second tab, which a key selected, at a
\* size that a resize event set
C2_Witness ==
  /\ d.sem /\ th[Loop].pc = "FindVolumes"
  /\ flags.initialTab = Unset /\ d.ActiveTabIndex = 1
  /\ d.tabPaneRect = Rect(0, 3, 30, 4)
  /\ d.statusHeader.set

\* C3: when a cycle has ended with a fetch error both locks are free and the
\* loop is at its select with the tick enabled, and the Render call of the next
\* tick acquires the lock and issues the first fetch again.
C3_ErrorDoesNotBlockNextTick ==
  [][/\ (LoopReady /\ d.statusHeader.updateError # NoErr) =>
          /\ ~d.sem /\ ~cp.sem /\ ~vp.sem
          /\ exit = "running"
          /\ ENABLED SelectTick
     /\ (th[Loop].pc = "Render" /\ Steps(Loop)) =>
          /\ th'[Loop].pc = "Version.Info"
          /\ d'.sem
          /\ InSeq(<<"Version.Info">>, th'[Loop].calls)
    ]_vars

\* C3 witness: a tick has called Render, which finds the lock free, while the
\* status line still shows the timeout that ended the cycle before
C3_Witness ==
  /\ th[Loop].pc = "Render"
  /\ th[Loop].calls = <<>>
  /\ ticker = "running"
  /\ ~d.sem /\ ~cp.sem /\ ~vp.sem
  /\ d.statusHeader.updateError = ErrDeadline

\* C4: the step that ends a cycle of the controller, at whichever call it
\* stopped, redraws the status line once and last, with the time of that moment
\* and the cycle's last error, and releases the lock; no earlier step of the
\* cycle touches the status line.
C4_StatusLineRedrawnLast ==
  [][\A t \in Goroutines :
       (InCycle(t) /\ Steps(t)) =>
          IF th'[t].pc \in {ReturnPc(t), "crashed"}
          THEN /\ th'[t].calls[Len(th'[t].calls)] = UiRender("statusHeader")
               /\ Occurrences(UiRender("statusHeader"), th'[t].calls) = 1
               /\ d'.statusHeader.set
               /\ d'.statusHeader.lastUpdate = FormatClock(now')
               /\ d'.statusHeader.updateError = th'[t].ret.err
               /\ ~d'.sem
          ELSE /\ d'.statusHeader = d.statusHeader
               /\ ~InSeq(UiRender("statusHeader"), th'[t].calls)
    ]_vars

\* C4 witness: a cycle that stopped at a failed pane fetch, after the clock
\* moved, has drawn the status line last with the new time and the error
C4_Witness ==
  /\ LoopReady
  /\ th[Loop].ret.err = ErrDeadline
  /\ InSeq(<<"ClusterInfo", flags.partition>>, th[Loop].calls)
  /\ th[Loop].calls[Len(th[Loop].calls)] = UiRender("statusHeader")
  /\ d.statusHeader.lastUpdate = 1
  /\ d.statusHeader.updateError = ErrDeadline

\* C5: when FindClusters or FindVolumes fails, the pane releases its lock and
\* returns the error, the controller's deferred functions then show it in the
\* status line, and every widget of both panes keeps its contents.
C5_PrimaryFetchFailureKeepsWidgets ==
  [][\A t \in Goroutines :
       /\ \A err \in FetchErrors :
            (Returns(t, "FindClusters", err) \/ Returns(t, "FindVolumes", err)) =>
               /\ th'[t].pc = PaneReturnPc(t)
               /\ th'[t].ret = [op |-> "pane.Render", how |-> "done", err |-> err]
               /\ IF th[t].pc = "FindClusters"
                  THEN cp' = [cp EXCEPT !.sem = FALSE] /\ vp' = vp
                  ELSE vp' = [vp EXCEPT !.sem = FALSE] /\ cp' = cp
               /\ d' = d
               /\ th'[t].calls = th[t].calls
       /\ (RunsDeferred(t) /\ th[t].ret.err # NoErr
              /\ th[t].got[Len(th[t].got)].call \in {"FindClusters", "FindVolumes"}) =>
            /\ th'[t].pc = ReturnPc(t)
            /\ th'[t].ret.err = th[t].ret.err
            /\ d'.statusHeader.updateError = th[t].ret.err
            /\ cp' = cp /\ vp' = vp
            /\ ~\E i \in 1..Len(th'[t].calls) :
                   /\ th'[t].calls[i][1] = "ui.Render"
                   /\ th'[t].calls[i][2] \notin {"filterHeader", "tabPane", "statusHeader"}
    ]_vars

\* C5 witness: FindClusters has timed out in the last cycle and the cluster
\* pane still shows the chart and the tables of an earlier cycle
C5_Witness ==
  /\ LoopReady
  /\ th[Loop].ret.err = ErrDeadline
  /\ th[Loop].calls[Len(th[Loop].calls) - 1][1] = "FindClusters"
  /\ d.statusHeader.updateError = ErrDeadline
  /\ cp.clusterHealth = <<1, 0, 1>>
  /\ Len(cp.clusterProblems) = 1
  /\ ~cp.sem

(***************************************************************************)
(* The panes' reductions, checked on every data set of PaneWorlds.         *)
(***************************************************************************)
RECURSIVE SumSeq(_)
SumSeq(s) == IF s = <<>> THEN 0 ELSE Head(s) + SumSeq(Tail(s))
\* how many records of list satisfy P
CountOf(list, P(_)) == Cardinality({i \in 1..Len(list) : P(list[i])})
\* g1's direct call of the pane's Render that begins with fetch has returned nil
PaneRendered(fetch) ==
  /\ th["g1"].pc = "idle"
  /\ th["g1"].ret = [op |-> "pane.Render", how |-> "done", err |-> NoErr]
  /\ \E i \in 1..Len(th["g1"].calls) : th["g1"].calls[i][1] = fetch
\* that call drew the widget
Drawn(widget) == InSeq(UiRender(widget), th["g1"].calls)
\* the histogram the call computed for a chart of k buckets: the chart's data
\* when it was drawn, all zero when the guard kept it from being drawn
Histogram(widget, data, k) == IF Drawn(widget) THEN data ELSE Copies(0, k)
StateAbsent(r) == r.State = NIL
ProtectionStateAbsent(r) == r.ProtectionState = NIL
HealthAbsent(r) == r.Health = NIL
AllServers(storage) == SumSeq([i \in 1..Len(storage) |-> Len(storage[i].Servers)])
ServersWithoutState(storage) ==
  SumSeq([i \in 1..Len(storage) |-> CountOf(storage[i].Servers, StateAbsent)])

\* C6: after a Render of a pane, the buckets of every histogram sum to the
\* number of records fetched (clusters; volumes; storage clusters; servers of
\* all storage clusters), and the unknown/other bucket (unhealthy for clusters)
\* holds at least the records whose state field is absent.
C6_BucketsSumToRecordCount ==
  /\ PaneRendered("FindClusters") =>
       LET h == Histogram("clusterHealth", cp.clusterHealth, 3)
       IN /\ SumSeq(h) = Len(backend.clusters)
          /\ h[3] >= CountOf(backend.clusters, StateAbsent)
  /\ PaneRendered("FindVolumes") =>
       LET s == Histogram("volumeState", vp.volumeState, 4)
           p == Histogram("volumeProtectionState", vp.volumeProtectionState, 5)
       IN /\ SumSeq(s) = Len(backend.volumes)
          /\ s[4] >= CountOf(backend.volumes, StateAbsent)
          /\ SumSeq(p) = Len(backend.volumes)
          /\ p[5] >= CountOf(backend.volumes, ProtectionStateAbsent)
  /\ (PaneRendered("FindVolumes") /\ Drawn("compressionRatio")) =>
       LET c == Histogram("clusterState", vp.clusterState, 4)
           s == Histogram("serverState", vp.serverState, 4)
       IN /\ SumSeq(c) = Len(backend.storage)
          /\ c[4] >= CountOf(backend.storage, HealthAbsent)
          /\ SumSeq(s) = AllServers(backend.storage)
          /\ s[4] >= ServersWithoutState(backend.storage)

IsSucceeded(c) == c.State = LastOperationStateSucceeded
IsProcessing(c) == c.State = LastOperationStateProcessing

\* C7: the chart of the cluster pane shows the number of clusters whose
\* last-operation state is Succeeded, the number in Processing, and every other
\* cluster (state empty or missing included) as unhealthy.
C7_ClusterStateClassification ==
  (PaneRendered("FindClusters") /\ Len(backend.clusters) > 0) =>
     /\ Drawn("clusterHealth")
     /\ cp.clusterHealth =
          <<CountOf(backend.clusters, IsSucceeded),
            CountOf(backend.clusters, IsProcessing),
            Len(backend.clusters) - CountOf(backend.clusters, IsSucceeded)
                                  - CountOf(backend.clusters, IsProcessing)>>

\* C7 witness: clusters in the states Succeeded, Processing and "" rendered as
\* one cluster per bucket
C7_Witness ==
  /\ PaneRendered("FindClusters")
  /\ [i \in 1..Len(backend.clusters) |-> backend.clusters[i].State]
       = <<LastOperationStateSucceeded, LastOperationStateProcessing, "">>
  /\ cp.clusterHealth = <<1, 1, 1>>

\* C8: after a Render of a pane every gauge it wrote is between 0 and 100, and
\* for an empty list no gauge is written or drawn.
C8_GaugesWithinPercentRange ==
  /\ PaneRendered("FindClusters") =>
       /\ \A g \in {cp.clusterStatusAPI, cp.clusterStatusControl,
                    cp.clusterStatusNodes, cp.clusterStatusSystem} : g \in 0..100
       /\ Len(backend.clusters) = 0 => ~Drawn("clusterStatusAPI")
  /\ PaneRendered("FindVolumes") =>
       /\ vp.compressionRatio \in 0..100
       /\ vp.physicalFree.Percent \in 0..100
       /\ Len(backend.storage) = 0 =>
            ~(Drawn("compressionRatio") \/ Drawn("physicalFree"))

\* the entries the loop appends to clusterErrors for cluster c
ProblemCount(c) ==
  IF c.State \in {NIL, ""} \/ c.Name = NIL THEN 0
  ELSE Cardinality({j \in 1..Len(c.Conditions) :
         LET k == c.Conditions[j]
         IN /\ ~k.isNil /\ k.Type # NIL /\ k.Message # NIL
            /\ k.Status \notin {NIL, ConditionTrue, ConditionProgressing}
            /\ ParseOK(k.LastUpdateTime)})
\* the entries the loop appends to lastErrors for cluster c
LastErrorCount(c) ==
  IF c.State \in {NIL, ""} \/ c.Name = NIL THEN 0
  ELSE Cardinality({j \in 1..Len(c.LastErrors) :
         LET e == c.LastErrors[j]
         IN e.Description # NIL /\ ParseOK(e.LastUpdateTime)})
NewestFirst(errs) == \A i \in 1..(Len(errs) - 1) : errs[i].Time >= errs[i + 1].Time

\* C10: after a Render of the cluster pane on at least one cluster, both tables
\* are drawn, each holds one row per entry, and the entries are in
\* non-increasing order of their instants.
C10_TablesNewestFirst ==
  (PaneRendered("FindClusters") /\ Len(backend.clusters) > 0) =>
     /\ Drawn("clusterProblems") /\ Drawn("clusterLastErrors")
     /\ NewestFirst(th["g1"].clusterErrors)
     /\ cp.clusterProblems = TableRows(th["g1"].clusterErrors)
     /\ Len(cp.clusterProblems)
          = SumSeq([i \in 1..Len(backend.clusters) |-> ProblemCount(backend.clusters[i])])
     /\ NewestFirst(th["g1"].lastErrors)
     /\ cp.clusterLastErrors = TableRows(th["g1"].lastErrors)
     /\ Len(cp.clusterLastErrors)
          = SumSeq([i \in 1..Len(backend.clusters) |-> LastErrorCount(backend.clusters[i])])

\* the entries of s newest first, entries of equal time in the order of s: the
\* first of the newest entries, then the rest in the same way
RECURSIVE NewestFirstInFetchOrder(_)
NewestFirstInFetchOrder(s) ==
  IF s = <<>> THEN <<>>
  ELSE LET i == CHOOSE k \in 1..Len(s) :
                  /\ \A j \in 1..Len(s) : s[k].Time >= s[j].Time
                  /\ \A j \in 1..(k - 1) : s[j].Time < s[k].Time
       IN <<s[i]>> \o NewestFirstInFetchOrder(
                        SubSeq(s, 1, i - 1) \o SubSeq(s, i + 1, Len(s)))

\* C11: after a Render of the cluster pane both tables list the entries newest
\* first and entries of equal time in the order the loop over the fetched
\* clusters appended them.
C11_TiesKeepFetchOrder ==
  (PaneRendered("FindClusters") /\ Len(backend.clusters) > 0) =>
     LET fetched == ClusterLoop(ClusterAcc0, backend.clusters)
     IN /\ cp.clusterProblems = TableRows(NewestFirstInFetchOrder(fetched.clusterErrors))
        /\ cp.clusterLastErrors = TableRows(NewestFirstInFetchOrder(fetched.lastErrors))

\* C10 witness: problems stamped one hour ago, three hours ago and now (hours
\* 3, 1 and 4) are listed as now, one hour ago, three hours ago
C10_Witness ==
  /\ PaneRendered("FindClusters")
  /\ [i \in 1..Len(backend.clusters) |-> backend.clusters[i].Conditions]
       = [i \in 1..3 |->
            <<Condition("False", ShootAPIServerAvailable,
                        <<"3", "1", "4">>[i], Ts(<<3, 1, 4>>[i], 0))>>]
  /\ Len(cp.clusterProblems) = 3
  /\ [i \in 1..Len(cp.clusterProblems) |-> cp.clusterProblems[i][2][4]]
       = <<"4", "3", "1">>
  /\ [i \in 1..3 |-> th["g1"].clusterErrors[i].Time] = <<4, 3, 1>>

(***************************************************************************)
(* A chart whose histogram is all zero, in the running program.            *)
(***************************************************************************)
NoServersCounted(storage) ==
  \A i \in 1..Len(storage) : storage[i].Health = NIL \/ storage[i].Servers = <<>>

\* C9: a Render of a pane that returns nil leaves the data of every chart whose
\* histogram has no positive bucket as it was and does not draw that chart:
\* the cluster chart for no clusters, the two volume charts for no volumes, the
\* storage chart for no storage clusters, the server chart for no counted server.
C9_AllZeroHistogramKeepsChart ==
  [][\A t \in Goroutines :
       (/\ Steps(t)
        /\ th[t].pc \in {"FindClusters", "ClusterInfo"}
        /\ th'[t].pc = PaneReturnPc(t)
        /\ th'[t].ret.err = NoErr) =>
          /\ (th[t].pc = "FindClusters" /\ Len(backend.clusters) = 0) =>
               /\ cp'.clusterHealth = cp.clusterHealth
               /\ ~InSeq(UiRender("clusterHealth"), th'[t].calls)
          /\ (th[t].pc = "ClusterInfo" /\ Len(th[t].volumeResp) = 0) =>
               /\ vp'.volumeState = vp.volumeState
               /\ vp'.volumeProtectionState = vp.volumeProtectionState
               /\ ~InSeq(UiRender("volumeState"), th'[t].calls)
               /\ ~InSeq(UiRender("volumeProtectionState"), th'[t].calls)
          /\ (th[t].pc = "ClusterInfo" /\ Len(backend.storage) = 0) =>
               /\ vp'.clusterState = vp.clusterState
               /\ ~InSeq(UiRender("clusterState"), th'[t].calls)
          /\ (th[t].pc = "ClusterInfo" /\ NoServersCounted(backend.storage)) =>
               /\ vp'.serverState = vp.serverState
               /\ ~InSeq(UiRender("serverState"), th'[t].calls)
    ]_vars

\* C9 witness: a cycle on the volume tab that fetched no volume has drawn the
\* used-space text anew and left the volume chart of an earlier cycle alone
C9_Witness ==
  /\ LoopReady
  /\ th[Loop].ret = [op |-> "Render", how |-> "done", err |-> NoErr]
  /\ InSeq(UiRender("volumeUsedSpace"), th[Loop].calls)
  /\ ~InSeq(UiRender("volumeState"), th[Loop].calls)
  /\ InSeq(UiRender("clusterState"), th[Loop].calls)
  /\ ~InSeq(UiRender("serverState"), th[Loop].calls)
  /\ vp.volumeUsedSpace = UsedSpaceText(0)
  /\ vp.volumeState = <<1, 0, 0, 0>>
  /\ vp.serverState = <<1, 0, 0, 0>>

(***************************************************************************)
(* The answers of the API, in the running program.                         *)
(***************************************************************************)
\* the ui.Render calls of widgets of the panes' storage section
StorageWidgets == {"compressionRatio", "physicalFree", "clusterState", "serverState"}
DrawsAnyOf(t, widgets) == \E w \in widgets : InSeq(UiRender(w), th'[t].calls)

\* C12: when ClusterInfo answers Forbidden after FindVolumes succeeded, the
\* pane's Render returns nil, the used-space text and the two volume charts
\* are set from the fetched volumes, the storage widgets are neither changed
\* nor drawn, and the status line the controller then writes shows no error.
C12_ForbiddenClusterInfoIsPartialRender ==
  [][/\ \A t \in Goroutines :
       Returns(t, "ClusterInfo", ClusterInfoDefault(StatusForbidden)) =>
          LET volumes == th[t].volumeResp
              used == SumSeq([i \in 1..Len(volumes) |->
                                IF volumes[i].Statistics.kind = "set"
                                THEN volumes[i].Statistics.used ELSE 0])
          IN /\ th'[t].pc = PaneReturnPc(t)
             /\ th'[t].ret = [op |-> "pane.Render", how |-> "done", err |-> NoErr]
             /\ vp'.volumeUsedSpace = UsedSpaceText(used)
             /\ InSeq(UiRender("volumeUsedSpace"), th'[t].calls)
             /\ Len(volumes) > 0 =>
                  /\ SumSeq(vp'.volumeState) = Len(volumes)
                  /\ SumSeq(vp'.volumeProtectionState) = Len(volumes)
                  /\ InSeq(UiRender("volumeState"), th'[t].calls)
                  /\ InSeq(UiRender("volumeProtectionState"), th'[t].calls)
             /\ vp' = [VolumePaneDrawVolumes(vp, VolumeLoop(VolumeAcc0, volumes))
                         EXCEPT !.sem = FALSE]
             /\ vp'.clusterState = vp.clusterState
             /\ vp'.serverState = vp.serverState
             /\ vp'.physicalFree = vp.physicalFree
             /\ vp'.compressionRatio = vp.compressionRatio
             /\ ~DrawsAnyOf(t, StorageWidgets)
     /\ (RunsDeferred(Loop)
           /\ LastGot(Loop, "ClusterInfo", ClusterInfoDefault(StatusForbidden))) =>
          /\ th'[Loop].ret = [op |-> "Render", how |-> "done", err |-> NoErr]
          /\ d'.statusHeader.updateError = NoErr
          /\ vp' = vp
          /\ ~DrawsAnyOf(Loop, StorageWidgets)
    ]_vars

\* C12 witness: a cycle whose ClusterInfo was forbidden has drawn the volume
\* fetched and left the storage chart of an earlier cycle, which the API's
\* data no longer matches
C12_Witness ==
  /\ LoopReady
  /\ LastGot(Loop, "ClusterInfo", ClusterInfoDefault(StatusForbidden))
  /\ th[Loop].ret.err = NoErr
  /\ vp.volumeState = <<1, 0, 0, 0>>
  /\ vp.volumeUsedSpace = UsedSpaceText(2)
  /\ vp.clusterState = <<0, 1, 0, 0>>
  /\ backend.storage[1].Health = "OK"

\* C13: when ClusterInfo fails with anything but Forbidden, the pane's Render
\* returns that error, the status line the controller then writes shows it,
\* and no widget of the pane is changed or drawn.
C13_OtherClusterInfoFailureIsSurfaced ==
  [][\A t \in Goroutines :
       \A err \in ClusterInfoErrors \ {ClusterInfoDefault(StatusForbidden)} :
          /\ Returns(t, "ClusterInfo", err) =>
               /\ th'[t].pc = PaneReturnPc(t)
               /\ th'[t].ret = [op |-> "pane.Render", how |-> "done", err |-> err]
               /\ th'[t].calls = th[t].calls
               /\ vp' = [vp EXCEPT !.sem = FALSE]
               /\ d' = d
          /\ (RunsDeferred(t) /\ LastGot(t, "ClusterInfo", err)) =>
               /\ th'[t].ret = [op |-> "Render", how |-> "done", err |-> err]
               /\ d'.statusHeader.updateError = err
               /\ th'[t].calls = Append(th[t].calls, UiRender("statusHeader"))
               /\ vp' = vp
               /\ ~DrawsAnyOf(t, StorageWidgets)
    ]_vars

\* C13 witness: ClusterInfo answered with status 500 and the status line shows
\* that error, the storage chart being the one of an earlier cycle
C13_Witness ==
  /\ LoopReady
  /\ LastGot(Loop, "ClusterInfo", ClusterInfoDefault(500))
  /\ d.statusHeader.updateError = ClusterInfoDefault(500)
  /\ vp.clusterState = <<1, 0, 0, 0>>
  /\ ~vp.sem

PaneFetches == {"FindClusters", "FindVolumes", "ClusterInfo"}
\* the calls goroutine t makes in the step
NewCalls(t) == SubSeq(th'[t].calls, Len(th[t].calls) + 1, Len(th'[t].calls))
\* the step calls neither Health.Health nor Render of a pane
AbortsCycle(t, err) ==
  /\ th'[t].pc = ReturnPc(t)
  /\ th'[t].ret = [op |-> "Render", how |-> "done", err |-> err]
  /\ NewCalls(t) = <<UiRender("statusHeader")>>
  /\ cp' = cp /\ vp' = vp
  /\ ~d'.sem

\* C14 as stated: when Version.Info fails the cycle ends there and the status
\* line, once it has shown a version and a health, keeps showing them, with
\* the error appended.
C14_StaleHeaderKept ==
  [][\A err \in FetchErrors :
       (Returns(Loop, "Version.Info", err) /\ d.statusHeader.set) =>
          /\ AbortsCycle(Loop, err)
          /\ d'.statusHeader.apiVersion = d.statusHeader.apiVersion
          /\ d'.statusHeader.coloredHealth = d.statusHeader.coloredHealth
          /\ d'.statusHeader.updateError = err
    ]_vars

\* C14 amended: when Version.Info fails the cycle ends there, without a call
\* of Health.Health or of the pane's Render, and the status line shows the
\* version "unknown" and the health "unknown" with the error appended,
\* whatever it showed before.
C14_VersionFailureShowsUnknown ==
  [][\A err \in FetchErrors :
       Returns(Loop, "Version.Info", err) =>
          /\ AbortsCycle(Loop, err)
          /\ ~InSeq(<<"Health.Health">>, th'[Loop].calls)
          /\ \A i \in 1..Len(th'[Loop].calls) : th'[Loop].calls[i][1] \notin PaneFetches
          /\ d'.statusHeader = StatusText("unknown", "unknown", "", err, now')
          /\ d'.statusHeader.coloredHealth = <<"unknown">>
    ]_vars

\* C14 witness: a cycle whose Version.Info timed out, after a cycle that had
\* shown a version and drawn the cluster chart; the status line says unknown
C14_Witness ==
  /\ LoopReady
  /\ LastGot(Loop, "Version.Info", ErrDeadline)
  /\ Len(th[Loop].got) = 1
  /\ cp.clusterHealth # <<>>
  /\ d.statusHeader.apiVersion = "unknown"
  /\ d.statusHeader.coloredHealth = <<"unknown">>
  /\ d.statusHeader.updateError = ErrDeadline

\* C15: a HealthInternalServerError answer of Health.Health records no error:
\* its payload is the health shown, and Render of the active pane is called
\* next (unless a field of the payload is nil, which panics); any other error
\* ends the cycle as its last error, and no Render of a pane is called.
C15_UnhealthyAnswerIsTolerated ==
  [][/\ Returns(Loop, "Health.Health", HealthInternalServerError) =>
          /\ th'[Loop].lastErr = NoErr
          /\ th'[Loop].ret.err = NoErr
          /\ th'[Loop].pc \in {"pane.Render", "crashed"}
          /\ th'[Loop].pc = "pane.Render" =>
               /\ th'[Loop].apiHealth \in {pl.Status : pl \in HealthPayloads} \ {NIL}
               /\ th'[Loop].pane = d.ActiveTabIndex
               /\ d' = d
     /\ \A err \in FetchErrors :
          Returns(Loop, "Health.Health", err) =>
             /\ AbortsCycle(Loop, err)
             /\ d'.statusHeader.updateError = err
             /\ \A i \in 1..Len(th'[Loop].calls) : th'[Loop].calls[i][1] \notin PaneFetches
    ]_vars

\* C15 witness: Health.Health answered with HealthInternalServerError, the
\* cycle went on to draw the cluster pane and ended without an error, the
\* status line showing the payload's health and message
C15_Witness ==
  /\ LoopReady
  /\ Len(th[Loop].got) = 3
  /\ th[Loop].got[2] = [call |-> "Health.Health", err |-> HealthInternalServerError]
  /\ th[Loop].got[3] = [call |-> "FindClusters", err |-> NoErr]
  /\ InSeq(UiRender("clusterHealth"), th[Loop].calls)
  /\ th[Loop].ret.err = NoErr
  /\ d.statusHeader.coloredHealth = <<"unhealthy", "db down", "fg:red">>
  /\ d.statusHeader.updateError = NoErr

\* C16 as stated: no API response and no record content makes a render cycle
\* panic or stops the event loop, whichever fields of the payloads and records
\* are nil.
C16_NoResponseCrashesTheCycle ==
  /\ exit # "panic"
  /\ \A t \in Goroutines : th[t].pc # "crashed"

\* C17: whenever the run of the dashboard ends (quit key, error of the
\* construction, panic in a render cycle) the terminal is closed and the loop
\* is at its end; once the run has ended no step follows, so no render and no
\* API call is made after the quit key.
C17_TerminalReleasedOnExit ==
  [][/\ exit = "running"
     /\ exit' # "running" =>
          /\ term' = "closed"
          /\ th'[Loop].pc \in {"exited", "crashed"}
          /\ exit' = "quit" =>
               /\ th[Loop].pc = "select"
               /\ th'[Loop] = [th[Loop] EXCEPT !.pc = "exited", !.event = th'[Loop].event]
               /\ th'[Loop].event \in {"q", "<C-c>"}
               /\ d' = d /\ cp' = cp /\ vp' = vp
          /\ exit' = "panic" => th'[Loop].pc = "crashed"
    ]_vars

\* C17 witness: Ctrl-C after a cycle had been drawn on the open terminal; the
\* terminal is closed and the loop has ended
C17_Witness ==
  /\ exit = "quit"
  /\ term = "closed"
  /\ th[Loop].pc = "exited"
  /\ th[Loop].event = "<C-c>"
  /\ d.statusHeader.set
  /\ InSeq(UiRender("statusHeader"), th[Loop].calls)

\* the answer is one Render goes on after: no error, the unhealthy answer of
\* Health.Health, or Forbidden from ClusterInfo
Tolerated(g) ==
  \/ g.err = NoErr
  \/ g.call = "Health.Health" /\ g.err = HealthInternalServerError
  \/ g.call = "ClusterInfo" /\ g.err = ClusterInfoDefault(StatusForbidden)

\* C18: between cycles the status line shows an error exactly when the last
\* answer of the most recent completed cycle was an error that ended it, and
\* then it shows that error; errors of earlier cycles are not shown.
C18_StatusLineShowsLastCycleOnly ==
  (LoopReady /\ th[Loop].ret.op = "Render" /\ th[Loop].ret.how = "done") =>
     LET got == th[Loop].got
         last == got[Len(got)]
     IN /\ got # <<>>
        /\ d.statusHeader.set
        /\ (d.statusHeader.updateError # NoErr) <=> ~Tolerated(last)
        /\ ~Tolerated(last) => d.statusHeader.updateError = last.err

\* C18 witness: the run started on the volume tab and no cycle has drawn the
\* volume pane, so the first cycle ended with an error; the most recent cycle
\* drew the cluster pane without an error and the status line shows none
C18_Witness ==
  /\ LoopReady
  /\ flags.initialTab = <<"v", "O", "L", "U", "M", "E", "S">>
  /\ vp.volumeUsedSpace = NewDashboardVolumePane.volumeUsedSpace
  /\ d.ActiveTabIndex = 0
  /\ LastGot(Loop, "FindClusters", NoErr)
  /\ InSeq(UiRender("clusterHealth"), th[Loop].calls)
  /\ th[Loop].ret = [op |-> "Render", how |-> "done", err |-> NoErr]
  /\ d.statusHeader.updateError = NoErr

\* C19: in the event loop a key whose id is the number k of a tab sets the
\* active tab index to k-1, clears the screen and calls Render, which renders
\* the pane of the active tab; any other key but quit and resize changes
\* nothing and calls no Render; a tick calls Render and changes neither the
\* active tab index nor any rectangle.
C19_KeysAndTicks ==
  [][/\ (th[Loop].pc = "select" /\ Steps(Loop)) =>
          LET e == th'[Loop].event
              tabKeys == {Itoa(k) : k \in 1..NumTabs}
          IN /\ \A k \in 1..NumTabs :
                  e = Itoa(k) =>
                     /\ d' = [d EXCEPT !.ActiveTabIndex = k - 1]
                     /\ th'[Loop].pc = "Render"
                     /\ th'[Loop].calls = <<<<"ui.Clear">>>>
                     /\ cp' = cp /\ vp' = vp
             /\ e \notin tabKeys \cup {"q", "<C-c>", "<Resize>", "tick"} =>
                  /\ th'[Loop] = [th[Loop] EXCEPT !.event = e]
                  /\ d' = d /\ cp' = cp /\ vp' = vp
             /\ e = "tick" =>
                  /\ th'[Loop].pc = "Render"
                  /\ th'[Loop].calls = <<>>
                  /\ d' = d /\ cp' = cp /\ vp' = vp
     /\ (th[Loop].pc # "pane.Render" /\ th'[Loop].pc = "pane.Render") =>
          th'[Loop].pane = d'.ActiveTabIndex
    ]_vars

\* C19 witness: the run started on the cluster tab and drew it; key "2" has
\* made the volume tab active and cleared the screen, Render is about to run
C19_Witness ==
  /\ flags.initialTab = Unset
  /\ cp.clusterHealth # NewDashboardClusterPane.clusterHealth
  /\ th[Loop].pc = "Render"
  /\ th[Loop].event = "2"
  /\ th[Loop].calls = <<<<"ui.Clear">>>>
  /\ d.ActiveTabIndex = 1

\* C20 as stated: after Resize, whatever the width and height, the header
\* band is rows 0 to 4, the tab strip the one bottom row, every pane has the
\* same rectangle, the rows between the two, and the bands do not overlap.
C20_BandsPartitionTheTerminal ==
  term = "open" =>
     /\ d.statusHeaderRect.y1 = 0 /\ d.statusHeaderRect.y2 = 5
     /\ d.filterHeaderRect.y1 = 0 /\ d.filterHeaderRect.y2 = 5
     /\ d.tabPaneRect.y2 - d.tabPaneRect.y1 = 1
     /\ cp.rect = vp.rect
     /\ cp.rect[2] = d.statusHeaderRect.y2
     /\ cp.rect[4] = d.tabPaneRect.y1
     /\ d.statusHeaderRect.y2 <= d.tabPaneRect.y1

\* the flags name a theme dashboardApplyTheme refuses, or an initial tab
\* that is no pane's name whatever the case of its letters
BadFlags ==
  \/ flags.theme \notin {"default", "dark"}
  \/ /\ flags.initialTab # Unset
     /\ \A i \in 1..NumTabs : ToLower(TabNames[i]) # ToLower(flags.initialTab)
\* nothing has been drawn, no API has been called and the loop never ran
NothingStarted ==
  /\ th[Loop].pc = "exited"
  /\ th[Loop].calls = <<>>
  /\ th[Loop].got = <<>>
  /\ th[Loop].event = "none"
  /\ ticker = "unset"
  /\ d = NewDashboard /\ cp = NewDashboardClusterPane /\ vp = NewDashboardVolumePane
  /\ term = "closed"

\* C21: when the run has ended with an error (the terminal's initialisation
\* failed, the theme is neither default nor dark, or the initial tab names no
\* pane, letter case ignored) nothing was drawn, no API was called and the
\* event loop was not entered; with such a theme or initial tab the run ends
\* with that error as soon as it has started.
C21_StartupErrorsBeforeAnyRender ==
  /\ exit = "error" => NothingStarted
  /\ (BadFlags /\ th[Loop].pc # "start") => (exit = "error" /\ NothingStarted)

\* C21 witness: the run was started with --initial-tab machines, which is no
\* pane's name; it ended with an error and nothing was drawn or fetched
C21_Witness ==
  /\ flags.initialTab = <<"m", "a", "c", "h", "i", "n", "e", "s">>
  /\ flags.theme = "default"
  /\ exit = "error"
  /\ NothingStarted

\* C22 as stated: every fetch a pane issues (FindClusters, FindVolumes,
\* ClusterInfo) carries the partition, the tenant and the purpose of the
\* flags as its filter, the same in every cycle.
C22_EveryFetchCarriesAllFilters ==
  \A t \in Goroutines :
     \A i \in 1..Len(th[t].calls) :
        th[t].calls[i][1] \in PaneFetches =>
           th[t].calls[i] = <<th[t].calls[i][1], flags.partition, flags.tenant, flags.purpose>>

\* the conditions of cluster c that have a status other than true and
\* progressing, a cluster name, a message and a timestamp that parses
FailingConditions(c) ==
  IF c.isNil \/ c.Name = NIL THEN 0
  ELSE Cardinality({j \in 1..Len(c.Conditions) :
         LET k == c.Conditions[j]
         IN /\ ~k.isNil
            /\ k.Status \notin {NIL, ConditionTrue, ConditionProgressing}
            /\ k.Message # NIL
            /\ ParseOK(k.LastUpdateTime)})
\* the last errors of cluster c that have a name, a description and a
\* timestamp that parses
ListedLastErrors(c) ==
  IF c.isNil \/ c.Name = NIL THEN 0
  ELSE Cardinality({j \in 1..Len(c.LastErrors) :
         LET e == c.LastErrors[j]
         IN ~e.isNil /\ e.Description # NIL /\ ParseOK(e.LastUpdateTime)})

\* C23 as stated: a cluster-pane render that fetched clusters gives the
\* problem table one row for every condition of every fetched cluster that
\* has a status other than true and progressing, a cluster name, a message
\* and a parseable timestamp, and the last-errors table one row for every
\* last error with name, description and parseable timestamp.
C23_OneRowPerListedEntry ==
  (PaneRendered("FindClusters") /\ backend.clusters # <<>>) =>
     /\ Len(cp.clusterProblems) =
          SumSeq([i \in 1..Len(backend.clusters) |-> FailingConditions(backend.clusters[i])])
     /\ Len(cp.clusterLastErrors) =
          SumSeq([i \in 1..Len(backend.clusters) |-> ListedLastErrors(backend.clusters[i])])

IsHealthy(k) == k.Status \in {ConditionTrue, ConditionProgressing}
\* the conditions of type ty, of every fetched cluster, whose status is true or
\* progressing
HealthyOfType(clusters, ty) ==
  SumSeq([i \in 1..Len(clusters) |->
            IF clusters[i].isNil THEN 0
            ELSE Cardinality({j \in 1..Len(clusters[i].Conditions) :
                   LET k == clusters[i].Conditions[j]
                   IN ~k.isNil /\ IsHealthy(k) /\ k.Type = ty})])
\* the rows of the conditions of c that have a status other than true and
\* progressing and what a row needs
RowsOfFailing(c) ==
  IF c.isNil \/ c.Name = NIL THEN {}
  ELSE {<<c.Name, ConditionErrorMessage(c.Conditions[j].Type, c.Conditions[j].Message)>> :
          j \in {j \in 1..Len(c.Conditions) :
                   LET k == c.Conditions[j]
                   IN /\ ~k.isNil
                      /\ k.Status \notin {NIL, ConditionTrue, ConditionProgressing}
                      /\ k.Message # NIL
                      /\ ParseOK(k.LastUpdateTime)}}

\* C24 as stated: in a cluster-pane render every condition of every fetched
\* cluster is counted in exactly one way.  A condition whose status is true or
\* progressing adds one to the healthy counter of its type, so each gauge
\* shows the count of such conditions of its type; a condition of another
\* status adds to no counter and gives the problem table its row, so the table
\* has one row for each of them and no row of a healthy condition.
C24_EveryConditionCountedOneWay ==
  (PaneRendered("FindClusters") /\ backend.clusters # <<>>) =>
     LET clusters == backend.clusters
         n == Len(clusters)
     IN /\ cp.clusterStatusAPI = (HealthyOfType(clusters, ShootAPIServerAvailable) * 100) \div n
        /\ cp.clusterStatusControl = (HealthyOfType(clusters, ShootControlPlaneHealthy) * 100) \div n
        /\ cp.clusterStatusNodes = (HealthyOfType(clusters, ShootEveryNodeReady) * 100) \div n
        /\ cp.clusterStatusSystem = (HealthyOfType(clusters, ShootSystemComponentsHealthy) * 100) \div n
        /\ Len(cp.clusterProblems) = SumSeq([i \in 1..n |-> FailingConditions(clusters[i])])
        /\ \A r \in 1..Len(cp.clusterProblems) :
              \E i \in 1..n : cp.clusterProblems[r] \in RowsOfFailing(clusters[i])

\* the API calls and the widgets of each pane
ClusterPaneFetches == {"FindClusters"}
VolumePaneFetches == {"FindVolumes", "ClusterInfo"}
ClusterWidgets ==
  {"clusterHealth", "clusterProblems", "clusterLastErrors", "clusterStatusAPI",
   "clusterStatusControl", "clusterStatusNodes", "clusterStatusSystem"}
VolumeWidgets == StorageWidgets \cup {"volumeUsedSpace", "volumeState", "volumeProtectionState"}
\* the step of goroutine t calls none of the fetches and draws none of the widgets
Silent(t, fetches, widgets) ==
  \A i \in (Len(th[t].calls) + 1)..Len(th'[t].calls) :
     LET call == th'[t].calls[i]
     IN /\ call[1] \notin fetches
        /\ call[1] = "ui.Render" => call[2] \notin widgets

\* C25: in a controller render cycle the steps of the controller itself
\* (entering Render, the answers of Version.Info and Health.Health) write
\* nothing of any pane, and no step of the cycle calls an API of a pane that is
\* not the active one, draws one of its widgets or changes anything of it.
C25_OnlyActivePaneRenders ==
  [][(Steps(Loop) /\ th[Loop].pc \notin {"start", "select"}) =>
        /\ th[Loop].pc \in {"Render", "Version.Info", "Health.Health"} =>
             /\ cp' = cp /\ vp' = vp
             /\ Silent(Loop, ClusterPaneFetches \cup VolumePaneFetches,
                       ClusterWidgets \cup VolumeWidgets)
        /\ (th[Loop].pc \notin {"Render", "Version.Info", "Health.Health"}
              /\ d.ActiveTabIndex # 0) =>
             cp' = cp /\ Silent(Loop, ClusterPaneFetches, ClusterWidgets)
        /\ (th[Loop].pc \notin {"Render", "Version.Info", "Health.Health"}
              /\ d.ActiveTabIndex # 1) =>
             vp' = vp /\ Silent(Loop, VolumePaneFetches, VolumeWidgets)
    ]_vars

\* C25 witness: a cycle on the volume tab has fetched and drawn the volume
\* pane, while the cluster pane still shows the chart of an earlier cycle
\* although the API has no cluster any more
C25_Witness ==
  /\ LoopReady
  /\ d.ActiveTabIndex = 1
  /\ backend.clusters = <<>>
  /\ cp.clusterHealth = <<1, 0, 1>>
  /\ LastGot(Loop, "ClusterInfo", NoErr)
  /\ InSeq(UiRender("volumeUsedSpace"), th[Loop].calls)
  /\ \A i \in 1..Len(th[Loop].calls) : th[Loop].calls[i][1] # "FindClusters"

\* how many records of the list have value x in field f, and how many have
\* none of the values xs there (a nil field included)
Having(list, f, x) == Cardinality({i \in 1..Len(list) : list[i][f] = x})
HavingNoneOf(list, f, xs) == Cardinality({i \in 1..Len(list) : list[i][f] \notin xs})
\* the histogram of field f over the listed values, with a last bucket for the rest
Classified(list, f, xs) ==
  [b \in 1..(Len(xs) + 1) |->
     IF b <= Len(xs) THEN Having(list, f, xs[b])
     ELSE HavingNoneOf(list, f, {xs[i] : i \in 1..Len(xs)})]
\* the servers of all storage clusters, in one list
RECURSIVE ServersOf(_)
ServersOf(storage) ==
  IF storage = <<>> THEN <<>> ELSE Head(storage).Servers \o ServersOf(Tail(storage))

\* C26 as stated: after a volume-pane render the volume chart counts every
\* volume by its state under Available, Failed, Unknown or else Other, the
\* protection chart by its protection state under FullyProtected, Degraded,
\* ReadOnly, NotAvailable or else Unknown, the cluster chart every storage
\* cluster by its health under OK, Warning, Error or else Other, and the
\* server chart every server by its state under Enabled, Disabled, Failed or
\* else Other, each in the order of the chart's labels.
C26_FixedTablesWithDefault ==
  /\ (PaneRendered("FindVolumes") /\ \A i \in 1..Len(backend.volumes) : ~backend.volumes[i].isNil) =>
        /\ Histogram("volumeState", vp.volumeState, 4) =
             Classified(backend.volumes, "State", <<"Available", "Failed", "Unknown">>)
        /\ Histogram("volumeProtectionState", vp.volumeProtectionState, 5) =
             Classified(backend.volumes, "ProtectionState",
                        <<"FullyProtected", "Degraded", "ReadOnly", "NotAvailable">>)
  /\ (PaneRendered("ClusterInfo") /\ LastGot("g1", "ClusterInfo", NoErr)
        /\ backend.storage # <<>>) =>
        /\ Histogram("clusterState", vp.clusterState, 4) =
             Classified(backend.storage, "Health", <<"OK", "Warning", "Error">>)
        /\ Histogram("serverState", vp.serverState, 4) =
             Classified(ServersOf(backend.storage), "State", <<"Enabled", "Disabled", "Failed">>)

\* C27: in the program's event loop no Render call, of the controller or of a
\* pane, is ever dropped; whenever the loop is at its select or has
\* dispatched an event and is about to call Render, the controller's lock and
\* both panes' locks are free; and a pane's lock is held only while the
\* controller's lock is held.
C27_DropBranchNeverTaken ==
  /\ th[Loop].ret.how # "busy"
  /\ th[Loop].pc \in {"select", "Render"} => (~d.sem /\ ~cp.sem /\ ~vp.sem)
  /\ th[Loop].pc \in {"pane.Render", "deferred"} => (d.sem /\ ~cp.sem /\ ~vp.sem)
  /\ (cp.sem \/ vp.sem) => d.sem
  /\ ~(cp.sem /\ vp.sem)

\* C27 witness: in a cycle after the first, the cluster pane waits for
\* FindClusters holding its lock, and the controller's lock is held
C27_Witness ==
  /\ th[Loop].pc = "FindClusters"
  /\ cp.sem /\ d.sem /\ ~vp.sem
  /\ d.statusHeader.set
  /\ ticker = "running"

\* C28: in every state of the dashboard's run the active tab index is that of
\* a pane, 0 <= index < number of panes, and so is the index of the pane whose
\* Render the controller calls.
C28_ActiveTabIndexInRange ==
  /\ d.ActiveTabIndex \in 0..(NumTabs - 1)
  /\ \A t \in Goroutines :
        th[t].pc \in {"pane.Render"} \cup PaneFetches => th[t].pane \in 0..(NumTabs - 1)

\* C28 witness: started on the first tab, which it has drawn, the dashboard
\* was switched to the last tab by its key and the controller is calling that
\* pane's Render
C28_Witness ==
  /\ flags.initialTab = Unset
  /\ d.ActiveTabIndex = NumTabs - 1
  /\ th[Loop].pc = "pane.Render"
  /\ th[Loop].pane = NumTabs - 1
  /\ cp.clusterHealth # NewDashboardClusterPane.clusterHealth

VolumeSectionWidgets == {"volumeUsedSpace", "volumeState", "volumeProtectionState"}

\* C29: the volume pane's Render writes and draws no widget when FindVolumes
\* returns, and when ClusterInfo then fails with an error other than
\* Forbidden it returns that error with the used-space text and the two
\* volume charts unchanged and not drawn, whatever volumes were fetched.
C29_NoWidgetBeforeBothFetches ==
  [][\A t \in Goroutines :
       /\ (Steps(t) /\ th[t].pc = "FindVolumes") =>
            /\ vp' = [vp EXCEPT !.sem = vp'.sem]
            /\ Silent(t, {}, VolumeWidgets)
       /\ \A err \in ClusterInfoErrors \ {ClusterInfoDefault(StatusForbidden)} :
            Returns(t, "ClusterInfo", err) =>
               /\ vp'.volumeUsedSpace = vp.volumeUsedSpace
               /\ vp'.volumeState = vp.volumeState
               /\ vp'.volumeProtectionState = vp.volumeProtectionState
               /\ Silent(t, {}, VolumeSectionWidgets)
               /\ th'[t].ret.err = err
    ]_vars

\* C29 witness: FindVolumes returned two volumes, ClusterInfo answered with
\* status 500, and the pane's Render has returned that error with the used
\* space text and the volume charts as the constructor left them
C29_Witness ==
  /\ th["g1"].pc = "idle"
  /\ LastGot("g1", "ClusterInfo", ClusterInfoDefault(500))
  /\ th["g1"].ret.err = ClusterInfoDefault(500)
  /\ Len(backend.volumes) = 2
  /\ Len(th["g1"].got) = 2
  /\ vp.volumeUsedSpace = NewDashboardVolumePane.volumeUsedSpace
  /\ vp.volumeState = NewDashboardVolumePane.volumeState
  /\ vp.volumeProtectionState = NewDashboardVolumePane.volumeProtectionState

(***************************************************************************)
(* The command "volume delete <volume>" (src/cmd/volume.go).               *)
(*                                                                         *)
(* vd is [pc, args, yes, lookupErr, found, answer, calls, err]: the        *)
(* command's arguments, the flag yes-i-really-mean-it, the answer of the   *)
(* lookup (FindVolumes by id), what was typed at the prompt ("none" when   *)
(* no prompt was shown), the API calls issued and the error returned.  A   *)
(* volume found is [isNil, VolumeID, ConnectedHosts].                      *)
(***************************************************************************)
FoundVolume(id, hosts) == [isNil |-> FALSE, VolumeID |-> id, ConnectedHosts |-> hosts]
NilFoundVolume == [isNil |-> TRUE, VolumeID |-> NIL, ConnectedHosts |-> <<>>]
FoundVolumes ==
  {FoundVolume(id, hosts) : id \in {"v1", NIL}, hosts \in {<<>>, <<"h1">>}}
    \cup {NilFoundVolume}
LookupPayloads == SeqsUpTo(FoundVolumes, MaxFound)
DeleteArgs == {<<>>, <<"v1">>, <<"v1", "v2">>}
PromptAnswers == {"y", "n", ""}

ErrNoVolumeGiven == [kind |-> "no volume given", code |-> 0]
ErrNoVolumeFound == [kind |-> "no volume for id found", code |-> 0]
ErrMoreThanOneVolume == [kind |-> "more than one volume for id found", code |-> 0]
ErrStillConnected == [kind |-> "volume is still connected to this node", code |-> 0]
ErrUnexpectedAnswer == [kind |-> "unexpected answer given", code |-> 0]
ErrPrint == [kind |-> "print", code |-> 0]

\* helper.Prompt(msg, compare): reads a line and fails unless it is compare
Prompt(answer, compare) == IF answer = compare THEN NoErr ELSE ErrUnexpectedAnswer

\* a check that lets every volume pass
HasConnectedHostsNever(vol) == FALSE

\* len(vol.ConnectedHosts) > 0
HasConnectedHosts(vol) == Len(vol.ConnectedHosts) > 0

\* the command has returned err / has panicked
VdReturn(v, err) == [v EXCEPT !.pc = "returned", !.err = err]
VdPanic(v) == [v EXCEPT !.pc = "crashed"]

\* c.cloud.Volume.DeleteVolume(...WithID(*vol.VolumeID)): a nil VolumeID is a
\* nil pointer dereference
IssueDelete(v, vol) ==
  IF vol.VolumeID = NIL THEN VdPanic(v)
  ELSE [v EXCEPT !.pc = "DeleteVolume",
                 !.calls = Append(@, <<"DeleteVolume", vol.VolumeID>>)]

\* volumeDelete calls getVolumeFromArgs, which refuses an empty argument list
\* and looks the first argument up with FindVolumes
volumeDelete ==
  /\ vd.pc = "start"
  /\ vd' = IF Len(vd.args) < 1 THEN VdReturn(vd, ErrNoVolumeGiven)
           ELSE [vd EXCEPT !.pc = "FindVolumes",
                           !.calls = Append(@, <<"FindVolumes", vd.args[1]>>)]
  /\ UNCHANGED <<flags, term, exit, now, ticker, backend, d, cp, vp, th>>

\* FindVolumes returns: getVolumeFromArgs wants exactly one volume;
\* volumeDelete refuses a connected volume, then either asks or deletes
getVolumeFromArgs ==
  /\ vd.pc = "FindVolumes"
  /\ \E err \in {NoErr} \cup FetchErrors, payload \in LookupPayloads :
       LET v == [vd EXCEPT !.lookupErr = err,
                           !.found = IF err = NoErr THEN payload ELSE <<>>]
       IN vd' = IF err # NoErr THEN VdReturn(v, err)
                ELSE IF Len(payload) < 1 THEN VdReturn(v, ErrNoVolumeFound)
                ELSE IF Len(payload) > 1 THEN VdReturn(v, ErrMoreThanOneVolume)
                ELSE IF payload[1].isNil THEN VdPanic(v)
                ELSE IF HasConnectedHosts(payload[1]) THEN VdReturn(v, ErrStillConnected)
                ELSE IF ~vd.yes
                THEN IF payload[1].VolumeID = NIL THEN VdPanic(v)
                     ELSE [v EXCEPT !.pc = "Prompt"]
                ELSE IssueDelete(v, payload[1])
  /\ UNCHANGED <<flags, term, exit, now, ticker, backend, d, cp, vp, th>>

\* helper.Prompt("Are you sure? (y/n)", "y") returns
PromptReturn ==
  /\ vd.pc = "Prompt"
  /\ \E answer \in PromptAnswers :
       LET v == [vd EXCEPT !.answer = answer]
       IN vd' = IF Prompt(answer, "y") # NoErr THEN VdReturn(v, Prompt(answer, "y"))
                ELSE IssueDelete(v, vd.found[1])
  /\ UNCHANGED <<flags, term, exit, now, ticker, backend, d, cp, vp, th>>

\* DeleteVolume returns; its payload is printed
DeleteVolumeReturn ==
  /\ vd.pc = "DeleteVolume"
  /\ \E err \in {NoErr} \cup FetchErrors, printed \in {NoErr, ErrPrint} :
       vd' = VdReturn(vd, IF err # NoErr THEN err ELSE printed)
  /\ UNCHANGED <<flags, term, exit, now, ticker, backend, d, cp, vp, th>>

InitVolumeDelete ==
  /\ flags \in {f \in FlagSets : f.theme = "default" /\ f.initialTab = Unset}
  /\ term = "closed"
  /\ exit = "running"
  /\ now = 0
  /\ ticker = "unset"
  /\ backend \in {World(<<>>, <<>>, <<>>)}
  /\ d = NewDashboard
  /\ cp = NewDashboardClusterPane
  /\ vp = NewDashboardVolumePane
  /\ th = [t \in Goroutines |-> Locals("none")]
  /\ vd \in {[pc |-> "start", args |-> args, yes |-> yes, lookupErr |-> NoErr,
              found |-> <<>>, answer |-> "none", calls |-> <<>>, err |-> NoErr] :
               args \in DeleteArgs, yes \in BOOLEAN}

NextVolumeDelete ==
  \/ volumeDelete
  \/ getVolumeFromArgs
  \/ PromptReturn
  \/ DeleteVolumeReturn

SpecVolumeDelete == InitVolumeDelete /\ [][NextVolumeDelete]_vars

\* a DeleteVolume call has been issued
DeleteIssued == \E i \in 1..Len(vd.calls) : vd.calls[i][1] = "DeleteVolume"
\* the lookup gave exactly one volume, it has no connected host, and the flag
\* is set or the prompt was answered with y
MayDelete ==
  /\ Len(vd.args) >= 1
  /\ vd.lookupErr = NoErr
  /\ Len(vd.found) = 1
  /\ ~vd.found[1].isNil
  /\ vd.found[1].ConnectedHosts = <<>>
  /\ vd.yes \/ vd.answer = "y"

\* C30: volume delete issues DeleteVolume only after the lookup by id gave
\* exactly one volume, without connected hosts, and the flag
\* yes-i-really-mean-it is set or the prompt was answered with y; the call
\* names that volume and is the only one after the lookup.  In every other
\* case the command, once it has ended, has returned an error and has
\* issued no DeleteVolume; with the flag set no prompt is shown.
C30_DeleteOnlyWhenConfirmed ==
  /\ DeleteIssued =>
       /\ MayDelete
       /\ vd.calls = <<<<"FindVolumes", vd.args[1]>>, <<"DeleteVolume", vd.found[1].VolumeID>>>>
  /\ (vd.pc \in {"returned", "crashed"} /\ ~MayDelete) =>
       /\ ~DeleteIssued
       /\ vd.pc = "returned" => vd.err # NoErr
  /\ vd.yes => (vd.answer = "none" /\ vd.pc # "Prompt")

\* C30 witness: without the flag, the one unconnected volume found was
\* deleted after the prompt was answered with y, and the command returned nil
C30_Witness ==
  /\ vd.pc = "returned"
  /\ ~vd.yes
  /\ vd.answer = "y"
  /\ vd.found = <<FoundVolume("v1", <<>>)>>
  /\ vd.calls = <<<<"FindVolumes", "v1">>, <<"DeleteVolume", "v1">>>>
  /\ vd.err = NoErr

====
